---- MODULE Spec2Model ----
(***************************************************************************)
(* Model of the Bun + Express memory-leak reproduction harness:            *)
(*   - the measurement drivers (test-reproduction-local.sh,                *)
(*     test-reproduction.sh, test-docker-node-bun.sh,                      *)
(*     test-docker-alpine-bun.sh, test-docker-node.sh), step by step;      *)
(*   - the server under test (index.ts) as far as the drivers observe it.  *)
(* Shell values are strings; a value is kept with its kind so that bash    *)
(* arithmetic, jq extraction and bc division are modelled by what they do. *)
(***************************************************************************)
EXTENDS Integers, Sequences, FiniteSets, TLC

VARIABLES
    script,        \* which driver script runs
    JQ_AVAILABLE,  \* result of `command -v jq`
    toolInstalled, \* result of `command -v bun` / `command -v docker`
    pc,            \* position of the driver script
    exitStatus,    \* exit status of the script, meaningful once pc = "exited"
    trapSet,       \* `trap cleanup EXIT` has been executed
    waiting,       \* the script is blocked in a curl that has not returned
    RETRY_COUNT,   \* readiness retry counter
    loopI,         \* the load loop's variable i: requests issued so far
    blob,          \* captured command outputs (BASELINE, POST_LOAD, ...)
    sh,            \* scalar shell variables
    LEAK_TYPES,    \* bash array
    GROWTH_TYPES,  \* bash array
    report,        \* sections printed so far
    phaseLog,      \* order of the driver's externally visible phases
    serverState,   \* server process / container
    jscAvailable,  \* whether import("bun:jsc") succeeds in the server's runtime
    inflight,      \* requests sent and not yet answered
    response,      \* response waiting to be read by the blocked curl
    served,        \* requests handled by the server, per path
    handlers,      \* /memory handlers suspended at an await
    files,         \* heap snapshot files written by the server
    replies,       \* responses of /memory sent so far, in order
    objectTypeCounts, \* entries of heapStats.objectTypeCounts, in the mapping's order
    topObjectTypes,   \* heap.analysis.topObjectTypes computed from them
    runtime,          \* what process.memoryUsage() and heapStats().objectCount report
    memory,           \* the memory section of the response computed from it
    proc,             \* the server process: its socket, connections, signals and exit
    runner,           \* the test runner: its selection, the test in progress, its summary
    marks             \* history: the requests the server had received at the two HTTP-object probes

vars == << script, JQ_AVAILABLE, toolInstalled, pc, exitStatus, trapSet, waiting,
           RETRY_COUNT, loopI, blob, sh, LEAK_TYPES, GROWTH_TYPES, report, phaseLog,
           serverState, jscAvailable, inflight, response, served,
           handlers, files, replies, objectTypeCounts, topObjectTypes,
           runtime, memory, proc, runner, marks >>

\* what only the computation of the memory section, the signal handlers and
\* the test runner read and write
restVars == << runtime, memory, proc, runner, marks >>

\* what only the handlers of /memory write
serverVars == << handlers, files, replies, objectTypeCounts, topObjectTypes >>

\* what the analysis steps of a script read and write
shellVars == << blob, sh, LEAK_TYPES, GROWTH_TYPES, report >>

-----------------------------------------------------------------------------
(* Program constants *)

LoadRequests == 1000
MAX_RETRIES == 10
LeakRateScale == 2

HttpCritical == 500
SocketsCritical == 100
HttpModerate == 100
SocketsModerate == 50

PromisesCritical == 5000
FunctionsCritical == 10000
ArraysCritical == 20000
PromisesModerate == 1000
FunctionsModerate == 5000
ArraysModerate == 10000

HttpGrowth == 10
SocketsGrowth == 5
PromisesGrowth == 100
ArraysGrowth == 500
FunctionsGrowth == 1000

NodeRssModerate == 50
NodeHeapModerate == 30
NodeRssMinor == 20
NodeHeapMinor == 10
NodeHttpGrowth == 50
NodeArgumentsGrowth == 100
NodeRssContinued == 10
NodeHeapContinued == 5

(* Bounds of the model *)
Spread == 1   \* a count that exceeds a threshold t is tried at t + Spread
Shrink == 1   \* a count that shrinks between two probes is tried at -Shrink

-----------------------------------------------------------------------------
(* Driver scripts *)

Scripts == {"local", "docker", "node-bun", "alpine-bun", "node"}
BunScripts == Scripts \ {"node"}
\* scripts with the two-family "comprehensive leak detection"
ComprehensiveScripts == {"local", "docker", "node-bun"}
\* scripts that probe .memory.usage
UsageScripts == Scripts \ {"docker"}
\* scripts that keep the TRACK_OBJECTS flag
TrackScripts == {"node-bun", "node"}

-----------------------------------------------------------------------------
(* Shell values *)

Num(x) == [tag |-> "num", n |-> x, s |-> ""]
Str(x) == [tag |-> "str", n |-> 0, s |-> x]
\* output of `bc` with scale=2: n hundredths
Dec2(x) == [tag |-> "dec2", n |-> x, s |-> ""]
\* the fallback text "~<integer>"
Approx(x) == [tag |-> "approx", n |-> x, s |-> ""]
Unset == Str("")
Null == Str("null")

\* [ -n "$v" ]
NonEmpty(v) == v # Unset

\* A word inside $(( )): digits are the number; the word null names a shell
\* variable that is not set, which evaluates to 0.
Arith(v) == IF v.tag = "num" THEN v.n ELSE 0

\* $((a - b))
Minus(a, b) == Num(Arith(a) - Arith(b))

\* [ $v -gt t ]
Gt(v, t) == Arith(v) > t

\* division truncating toward zero (bash $(( / )) and bc)
TruncDiv(a, b) == IF a >= 0 THEN a \div b ELSE -((-a) \div b)

RECURSIVE Pow10(_)
Pow10(k) == IF k = 0 THEN 1 ELSE 10 * Pow10(k - 1)

\* variant of LeakRate: the difference divided by 100
LeakRatePerHundred(d, haveBc) ==
    IF haveBc
    THEN Dec2(TruncDiv(Arith(d) * Pow10(LeakRateScale), 100))
    ELSE Approx(TruncDiv(Arith(d), 100))

\* $(echo "scale=2; $d / 1000" | bc 2>/dev/null || echo "~$((d / 1000))")
LeakRate(d, haveBc) ==
    IF haveBc
    THEN Dec2(TruncDiv(Arith(d) * Pow10(LeakRateScale), LoadRequests))
    ELSE Approx(TruncDiv(Arith(d), LoadRequests))

-----------------------------------------------------------------------------
(* JSON as the drivers see it *)

CountKeys == {"Headers", "NodeHTTPResponse", "Arguments", "NodeHTTPServerSocket",
              "Promise", "Array", "Function"}
HttpKeys == {"Headers", "NodeHTTPResponse", "Arguments", "NodeHTTPServerSocket"}
GeneralKeys == {"Promise", "Array", "Function"}
UsageKeys == {"rss", "heapUsed"}
AllKeys == CountKeys \cup UsageKeys

ZeroFields == [k \in AllKeys |-> 0]

JsonUnset == [tag |-> "unset", keys |-> {}, f |-> ZeroFields]
JsonNull == [tag |-> "null", keys |-> {}, f |-> ZeroFields]
JsonRaw == [tag |-> "raw", keys |-> {}, f |-> ZeroFields]
\* the empty output of jq when curl gave it no input
JsonEmpty == [tag |-> "empty", keys |-> {}, f |-> ZeroFields]
JsonObj(ks, g) == [tag |-> "obj", keys |-> ks,
                   f |-> [k \in AllKeys |-> IF k \in ks THEN g[k] ELSE 0]]

NoResponse ==
    [path |-> "none", status |-> 0, body |-> "none", heapAvail |-> FALSE, f |-> ZeroFields]
\* the connection was closed before a response arrived
ConnLost ==
    [path |-> "lost", status |-> 0, body |-> "none", heapAvail |-> FALSE, f |-> ZeroFields]
\* res.status(200).json({ status: "ok" })
HealthResponse ==
    [path |-> "/health", status |-> 200, body |-> "{status:ok}", heapAvail |-> FALSE,
     f |-> ZeroFields]
MemoryResponse(avail, g) ==
    [path |-> "/memory", status |-> 200, body |-> "memory", heapAvail |-> avail,
     f |-> [k \in AllKeys |-> IF k \in UsageKeys \/ avail THEN g[k] ELSE 0]]

\* jq '.heap.analysis.httpObjects' (and the same with `// null`)
JqHttpObjects(r) == IF r.heapAvail THEN JsonObj(HttpKeys, r.f) ELSE JsonNull
\* jq '.heap.statistics.objectTypeCounts'
JqObjectTypeCounts(r) == IF r.heapAvail THEN JsonObj(CountKeys, r.f) ELSE JsonNull
\* jq '.memory.usage'
JqUsage(r) == JsonObj(UsageKeys, r.f)

\* echo "$json" | jq -r '.k'
JqField(j, k) ==
    CASE j.tag = "obj" /\ k \in j.keys -> Num(j.f[k])
      [] j.tag = "obj" -> Null
      [] j.tag = "null" -> Null
      [] OTHER -> Unset

\* echo "$json" | jq -r '.k // 0'
JqFieldOr0(j, k) == IF JqField(j, k) = Null THEN Num(0) ELSE JqField(j, k)

\* [ "$json" != "null" ] && [ -n "$json" ]
Present(j) == j.tag \notin {"null", "unset", "empty"}

-----------------------------------------------------------------------------
(* Classification rules of the drivers *)

\* variant of HttpClass: the socket count shares the thresholds of the other two
HttpClassUniform(h, r, k) ==
    IF Gt(h, HttpCritical) \/ Gt(r, HttpCritical) \/ Gt(k, HttpCritical)
    THEN "critical"
    ELSE IF Gt(h, HttpModerate) \/ Gt(r, HttpModerate) \/ Gt(k, HttpModerate)
         THEN "moderate"
         ELSE "none"

\* if [ $HEADERS_DIFF -gt 500 ] || [ $RESPONSES_DIFF -gt 500 ] || [ $SOCKETS_DIFF -gt 100 ]
\* elif [ $HEADERS_DIFF -gt 100 ] || [ $RESPONSES_DIFF -gt 100 ] || [ $SOCKETS_DIFF -gt 50 ]
HttpClass(h, r, k) ==
    IF Gt(h, HttpCritical) \/ Gt(r, HttpCritical) \/ Gt(k, SocketsCritical)
    THEN "critical"
    ELSE IF Gt(h, HttpModerate) \/ Gt(r, HttpModerate) \/ Gt(k, SocketsModerate)
         THEN "moderate"
         ELSE "none"

\* variant of GeneralClass: the thresholds of Function and Array exchanged
GeneralClassSwapped(p, f, a) ==
    IF Gt(p, PromisesCritical) \/ Gt(f, ArraysCritical) \/ Gt(a, FunctionsCritical)
    THEN "critical"
    ELSE IF Gt(p, PromisesModerate) \/ Gt(f, ArraysModerate) \/ Gt(a, FunctionsModerate)
         THEN "moderate"
         ELSE "none"

\* variant of GeneralClass: the moderate test of Function written with -lt
GeneralClassLt(p, f, a) ==
    IF Gt(p, PromisesCritical) \/ Gt(f, FunctionsCritical) \/ Gt(a, ArraysCritical)
    THEN "critical"
    ELSE IF Gt(p, PromisesModerate) \/ Arith(f) < FunctionsModerate \/ Gt(a, ArraysModerate)
         THEN "moderate"
         ELSE "none"

\* if [ $PROMISES_DIFF -gt 5000 ] || [ $FUNCTIONS_DIFF -gt 10000 ] || [ $ARRAYS_DIFF -gt 20000 ]
\* elif [ $PROMISES_DIFF -gt 1000 ] || [ $FUNCTIONS_DIFF -gt 5000 ] || [ $ARRAYS_DIFF -gt 10000 ]
GeneralClass(p, f, a) ==
    IF Gt(p, PromisesCritical) \/ Gt(f, FunctionsCritical) \/ Gt(a, ArraysCritical)
    THEN "critical"
    ELSE IF Gt(p, PromisesModerate) \/ Gt(f, FunctionsModerate) \/ Gt(a, ArraysModerate)
         THEN "moderate"
         ELSE "none"

\* variant of Escalate: moderate assigned without the test for critical
EscalateUnguarded(cur, class) ==
    CASE class = "critical" -> "critical"
      [] class = "moderate" -> "moderate"
      [] OTHER -> cur

\* The assignments to LEAK_SEVERITY in a branch of the comprehensive detection:
\* critical is assigned outright, moderate only if [ "$LEAK_SEVERITY" != "critical" ].
Escalate(cur, class) ==
    CASE class = "critical" -> "critical"
      [] class = "moderate" -> IF cur # "critical" THEN "moderate" ELSE cur
      [] OTHER -> cur

\* test-docker-node.sh: severity from the memory deltas
NodeClass(rss, heap) ==
    IF Gt(rss, NodeRssModerate) \/ Gt(heap, NodeHeapModerate)
    THEN "moderate"
    ELSE IF Gt(rss, NodeRssMinor) \/ Gt(heap, NodeHeapMinor)
         THEN "minor"
         ELSE "none"

\* variant of HttpGrowing: the socket count shares the threshold of the other two
HttpGrowingUniform(h, r, k) ==
    Gt(h, HttpGrowth) \/ Gt(r, HttpGrowth) \/ Gt(k, HttpGrowth)

\* if [ $DELAYED_HEADERS_DIFF -gt 10 ] || [ $DELAYED_RESPONSES_DIFF -gt 10 ] || [ $DELAYED_SOCKETS_DIFF -gt 5 ]
HttpGrowing(h, r, k) ==
    Gt(h, HttpGrowth) \/ Gt(r, HttpGrowth) \/ Gt(k, SocketsGrowth)

\* if [ $DELAYED_PROMISES_DIFF -gt 100 ] || [ $DELAYED_ARRAYS_DIFF -gt 500 ] || [ $DELAYED_FUNCTIONS_DIFF -gt 1000 ]
GeneralGrowing(p, a, f) ==
    Gt(p, PromisesGrowth) \/ Gt(a, ArraysGrowth) \/ Gt(f, FunctionsGrowth)

Rank(sev) == CASE sev = "critical" -> 3 [] sev = "moderate" -> 2
               [] sev = "minor" -> 1 [] OTHER -> 0

\* "Comprehensive leak detection": the severity of a vector dv of differences;
\* the general objects are checked only when they are tracked
LeakSeverity(dv, tracked) ==
    LET http == Escalate("none", HttpClass(Num(dv["Headers"]), Num(dv["NodeHTTPResponse"]),
                                           Num(dv["NodeHTTPServerSocket"])))
    IN  IF tracked
        THEN Escalate(http, GeneralClass(Num(dv["Promise"]), Num(dv["Function"]),
                                         Num(dv["Array"])))
        ELSE http

-----------------------------------------------------------------------------
(* Control flow of the scripts *)

\* The steps of each script in program order. A *_stats step is the probe of
\* .heap.analysis.httpObjects, a *_usage step the probe of .memory.usage, a
\* *_all step the probe of .heap.statistics.objectTypeCounts.
Flow(scr, jq) ==
    CASE scr \in {"local", "node-bun"} /\ jq ->
            << "baseline_stats", "baseline_usage", "baseline_extract", "baseline_all",
               "baseline_all_extract", "load", "post_stats", "post_usage", "post_extract",
               "post_all", "post_all_extract", "leak_rates", "check_http", "check_general",
               "report_leak", "wait", "delayed_stats", "delayed_extract", "delayed_all",
               "delayed_all_extract", "growth", "summary" >>
      [] scr = "docker" /\ jq ->
            << "baseline_stats", "baseline_extract", "baseline_all",
               "baseline_all_extract", "load", "post_stats", "post_extract",
               "post_all", "post_all_extract", "leak_rates", "check_http", "check_general",
               "report_leak", "wait", "delayed_stats", "delayed_extract", "delayed_all",
               "delayed_all_extract", "growth", "summary" >>
      [] scr = "alpine-bun" /\ jq ->
            << "baseline_stats", "baseline_usage", "baseline_extract", "load",
               "post_stats", "post_usage", "post_extract", "leak_rates", "check_http",
               "report_leak", "wait", "delayed_stats", "summary" >>
      [] scr = "node" /\ jq ->
            << "baseline_usage", "baseline_stats", "baseline_extract", "load",
               "post_usage", "post_stats", "post_extract", "node_objects", "node_severity",
               "wait", "delayed_usage", "delayed_stats", "delayed_extract", "growth",
               "summary" >>
      [] scr = "docker" /\ ~jq ->
            << "baseline_stats", "load", "post_stats", "wait", "delayed_stats", "summary" >>
      [] scr = "node" /\ ~jq ->
            << "baseline_usage", "baseline_stats", "load", "post_usage", "post_stats",
               "wait", "delayed_usage", "delayed_stats", "summary" >>
      [] OTHER ->
            << "baseline_stats", "baseline_usage", "load", "post_stats", "post_usage",
               "wait", "delayed_stats", "summary" >>

Jq == JQ_AVAILABLE = "true"

FlowNow == Flow(script, Jq)

PosIn(seq, p) == CHOOSE n \in 1..Len(seq) : seq[n] = p

First == FlowNow[1]
After(p) == FlowNow[PosIn(FlowNow, p) + 1]
\* the step after the two steps of an optional *_all probe that is not taken
AfterBlock(p) == FlowNow[PosIn(FlowNow, p) + 2]

ProbeSteps == {"baseline_stats", "baseline_usage", "baseline_all",
               "post_stats", "post_usage", "post_all",
               "delayed_stats", "delayed_usage", "delayed_all"}

\* the snapshot a probe belongs to
PhaseOf(p) ==
    CASE p \in {"baseline_stats", "baseline_usage", "baseline_all"} -> "baseline"
      [] p \in {"post_stats", "post_usage", "post_all"} -> "postload"
      [] OTHER -> "delayed"

\* variant of BlobOf: the post-load probe of the HTTP objects is stored in
\* the variable of the baseline
BlobOfShared(p) ==
    CASE p = "baseline_stats" -> IF script = "node" THEN "BASELINE_HEAP" ELSE "BASELINE"
      [] p = "baseline_usage" -> "BASELINE_MEMORY"
      [] p = "baseline_all" -> "BASELINE_ALL"
      [] p = "post_stats" -> IF script = "node" THEN "BASELINE_HEAP" ELSE "BASELINE"
      [] p = "post_usage" -> "POST_LOAD_MEMORY"
      [] p = "post_all" -> "POST_ALL"
      [] p = "delayed_stats" -> IF script = "node" THEN "FINAL_HEAP" ELSE "DELAYED"
      [] p = "delayed_usage" -> "FINAL_MEMORY"
      [] OTHER -> "DELAYED_ALL"

\* the shell variable that receives the output of the probe at step p
BlobOf(p) ==
    CASE p = "baseline_stats" -> IF script = "node" THEN "BASELINE_HEAP" ELSE "BASELINE"
      [] p = "baseline_usage" -> "BASELINE_MEMORY"
      [] p = "baseline_all" -> "BASELINE_ALL"
      [] p = "post_stats" -> IF script = "node" THEN "POST_LOAD_HEAP" ELSE "POST_LOAD"
      [] p = "post_usage" -> "POST_LOAD_MEMORY"
      [] p = "post_all" -> "POST_ALL"
      [] p = "delayed_stats" -> IF script = "node" THEN "FINAL_HEAP" ELSE "DELAYED"
      [] p = "delayed_usage" -> "FINAL_MEMORY"
      [] OTHER -> "DELAYED_ALL"

BlobNames == {"BASELINE", "BASELINE_HEAP", "BASELINE_MEMORY", "BASELINE_ALL",
              "POST_LOAD", "POST_LOAD_HEAP", "POST_LOAD_MEMORY", "POST_ALL",
              "DELAYED", "FINAL_HEAP", "FINAL_MEMORY", "DELAYED_ALL"}

\* get_memory_stats / get_memory_usage / get_all_object_counts / get_heap_analysis:
\* curl -s .../memory | jq <filter>, or the unfiltered body without jq
Filter(p, jq, r) ==
    IF ~jq THEN JsonRaw
    ELSE CASE p \in {"baseline_stats", "post_stats", "delayed_stats"} -> JqHttpObjects(r)
           [] p \in {"baseline_usage", "post_usage", "delayed_usage"} -> JqUsage(r)
           [] OTHER -> JqObjectTypeCounts(r)

-----------------------------------------------------------------------------
(* The straight-line blocks of the scripts, as functions of the shell state *)

ShNames == {"BASELINE_HEADERS", "BASELINE_RESPONSES", "BASELINE_ARGUMENTS", "BASELINE_SOCKETS",
            "BASELINE_RSS", "BASELINE_HEAP_USED",
            "BASELINE_PROMISES", "BASELINE_ARRAYS", "BASELINE_FUNCTIONS", "TRACK_OBJECTS",
            "POST_HEADERS", "POST_RESPONSES", "POST_ARGUMENTS", "POST_SOCKETS",
            "POST_RSS", "POST_HEAP_USED", "POST_PROMISES", "POST_ARRAYS", "POST_FUNCTIONS",
            "HEADERS_DIFF", "RESPONSES_DIFF", "ARGUMENTS_DIFF", "SOCKETS_DIFF",
            "RSS_DIFF", "HEAP_USED_DIFF", "PROMISES_DIFF", "ARRAYS_DIFF", "FUNCTIONS_DIFF",
            "HEADERS_LEAK_RATE", "RESPONSES_LEAK_RATE", "PROMISES_LEAK_RATE",
            "LEAK_DETECTED", "LEAK_SEVERITY",
            "DELAYED_HEADERS", "DELAYED_RESPONSES", "DELAYED_ARGUMENTS", "DELAYED_SOCKETS",
            "DELAYED_HEADERS_DIFF", "DELAYED_RESPONSES_DIFF", "DELAYED_ARGUMENTS_DIFF",
            "DELAYED_SOCKETS_DIFF",
            "DELAYED_PROMISES", "DELAYED_ARRAYS", "DELAYED_FUNCTIONS",
            "DELAYED_PROMISES_DIFF", "DELAYED_ARRAYS_DIFF", "DELAYED_FUNCTIONS_DIFF",
            "CONTINUED_GROWTH",
            "FINAL_RSS", "FINAL_HEAP_USED", "CONTINUED_RSS_DIFF", "CONTINUED_HEAP_DIFF",
            "FINAL_HEADERS", "FINAL_RESPONSES",
            "CONTINUED_HEADERS_DIFF", "CONTINUED_RESPONSES_DIFF"}

\* the shell state at the start of a script: every variable unset
ShInit == [k \in ShNames |-> Unset]
BlobInit == [k \in BlobNames |-> JsonUnset]

\* s with the assignments of m
Assign(s, m) == [k \in DOMAIN s |-> IF k \in DOMAIN m THEN m[k] ELSE s[k]]

\* the part of the state the blocks work on
DriverState(s, types, gtypes, rep) ==
    [sh |-> s, types |-> types, gtypes |-> gtypes, rep |-> rep]

\* node-bun guards its general-object branches with [ "$TRACK_OBJECTS" = true ]
Tracking(scr, s) == scr # "node-bun" \/ s["TRACK_OBJECTS"] = Str("true")

\* "Extract baseline numbers if jq is available"
BaselineExtract(scr, bl, d) ==
    LET usage == IF scr \in UsageScripts
                 THEN [BASELINE_RSS |-> JqField(bl["BASELINE_MEMORY"], "rss"),
                       BASELINE_HEAP_USED |-> JqField(bl["BASELINE_MEMORY"], "heapUsed")]
                 ELSE [BASELINE_RSS |-> d.sh["BASELINE_RSS"]]
        s1 == Assign(d.sh, usage)
    IN  IF scr # "node"
        THEN [d EXCEPT !.sh = Assign(s1,
                [BASELINE_HEADERS |-> JqField(bl["BASELINE"], "Headers"),
                 BASELINE_RESPONSES |-> JqField(bl["BASELINE"], "NodeHTTPResponse"),
                 BASELINE_ARGUMENTS |-> JqField(bl["BASELINE"], "Arguments"),
                 BASELINE_SOCKETS |-> JqField(bl["BASELINE"], "NodeHTTPServerSocket")])]
        ELSE IF Present(bl["BASELINE_HEAP"])
             THEN [d EXCEPT !.sh = Assign(s1,
                [BASELINE_HEADERS |-> JqFieldOr0(bl["BASELINE_HEAP"], "Headers"),
                 BASELINE_RESPONSES |-> JqFieldOr0(bl["BASELINE_HEAP"], "NodeHTTPResponse"),
                 BASELINE_ARGUMENTS |-> JqFieldOr0(bl["BASELINE_HEAP"], "Arguments"),
                 BASELINE_SOCKETS |-> JqFieldOr0(bl["BASELINE_HEAP"], "NodeHTTPServerSocket"),
                 TRACK_OBJECTS |-> Str("true")])]
             ELSE [d EXCEPT !.sh = Assign(s1, [TRACK_OBJECTS |-> Str("false")])]

\* "Get additional object types for comprehensive leak detection"
BaselineAllExtract(scr, bl, d) ==
    IF Present(bl["BASELINE_ALL"])
    THEN [d EXCEPT !.sh = Assign(d.sh,
            [BASELINE_PROMISES |-> JqFieldOr0(bl["BASELINE_ALL"], "Promise"),
             BASELINE_ARRAYS |-> JqFieldOr0(bl["BASELINE_ALL"], "Array"),
             BASELINE_FUNCTIONS |-> JqFieldOr0(bl["BASELINE_ALL"], "Function"),
             TRACK_OBJECTS |-> IF scr = "node-bun" THEN Str("true")
                               ELSE d.sh["TRACK_OBJECTS"]])]
    ELSE IF scr = "node-bun"
         THEN [d EXCEPT !.sh = Assign(d.sh, [TRACK_OBJECTS |-> Str("false")])]
         ELSE d

\* "Calculate differences if jq is available": extraction, differences, the
\* analysis sections
PostExtract(scr, bl, d) ==
    LET rss == JqField(bl["POST_LOAD_MEMORY"], "rss")
        hu == JqField(bl["POST_LOAD_MEMORY"], "heapUsed")
        usage == IF scr \in UsageScripts
                 THEN [POST_RSS |-> rss, POST_HEAP_USED |-> hu,
                       RSS_DIFF |-> Minus(rss, d.sh["BASELINE_RSS"]),
                       HEAP_USED_DIFF |-> Minus(hu, d.sh["BASELINE_HEAP_USED"])]
                 ELSE [POST_RSS |-> d.sh["POST_RSS"]]
        s1 == Assign(d.sh, usage)
        h == JqField(bl["POST_LOAD"], "Headers")
        r == JqField(bl["POST_LOAD"], "NodeHTTPResponse")
        a == JqField(bl["POST_LOAD"], "Arguments")
        k == JqField(bl["POST_LOAD"], "NodeHTTPServerSocket")
    IN  IF scr = "node"
        THEN [d EXCEPT !.sh = s1, !.rep = @ \cup {"memory_analysis"}]
        ELSE [d EXCEPT
                !.sh = Assign(s1,
                    [POST_HEADERS |-> h, POST_RESPONSES |-> r,
                     POST_ARGUMENTS |-> a, POST_SOCKETS |-> k,
                     HEADERS_DIFF |-> Minus(h, d.sh["BASELINE_HEADERS"]),
                     RESPONSES_DIFF |-> Minus(r, d.sh["BASELINE_RESPONSES"]),
                     ARGUMENTS_DIFF |-> Minus(a, d.sh["BASELINE_ARGUMENTS"]),
                     SOCKETS_DIFF |-> Minus(k, d.sh["BASELINE_SOCKETS"])]),
                !.rep = @ \cup {"http_analysis"}
                          \cup (IF scr \in UsageScripts THEN {"memory_analysis"} ELSE {})]

\* the test that decides whether POST_ALL is fetched
PostAllWanted(scr, s) ==
    IF scr = "node-bun" THEN s["TRACK_OBJECTS"] = Str("true")
    ELSE NonEmpty(s["BASELINE_PROMISES"])

\* "Check additional object types if available", after POST_ALL came back
PostAllExtract(scr, bl, d) ==
    IF Present(bl["POST_ALL"])
    THEN LET p == JqFieldOr0(bl["POST_ALL"], "Promise")
             a == JqFieldOr0(bl["POST_ALL"], "Array")
             f == JqFieldOr0(bl["POST_ALL"], "Function")
         IN [d EXCEPT
               !.sh = Assign(d.sh,
                   [POST_PROMISES |-> p, POST_ARRAYS |-> a, POST_FUNCTIONS |-> f,
                    PROMISES_DIFF |-> Minus(p, d.sh["BASELINE_PROMISES"]),
                    ARRAYS_DIFF |-> Minus(a, d.sh["BASELINE_ARRAYS"]),
                    FUNCTIONS_DIFF |-> Minus(f, d.sh["BASELINE_FUNCTIONS"])]),
               !.rep = @ \cup {"general_analysis"}]
    ELSE d

\* "Calculate leak rates"
LeakRates(scr, bl, d, haveBc) ==
    LET s1 == Assign(d.sh,
                [HEADERS_LEAK_RATE |-> LeakRate(d.sh["HEADERS_DIFF"], haveBc),
                 RESPONSES_LEAK_RATE |-> LeakRate(d.sh["RESPONSES_DIFF"], haveBc)])
        s2 == IF scr \in ComprehensiveScripts /\ Tracking(scr, d.sh)
                 /\ NonEmpty(d.sh["PROMISES_DIFF"])
              THEN Assign(s1, [PROMISES_LEAK_RATE |-> LeakRate(d.sh["PROMISES_DIFF"], haveBc)])
              ELSE s1
    IN [d EXCEPT !.sh = s2, !.rep = @ \cup {"leak_rates"}]

\* "Check HTTP objects" (comprehensive scripts) / "Determine leak severity" (alpine)
CheckHttpObjects(scr, bl, d) ==
    LET c == HttpClass(d.sh["HEADERS_DIFF"], d.sh["RESPONSES_DIFF"], d.sh["SOCKETS_DIFF"])
    IN  IF scr \in ComprehensiveScripts
        THEN [d EXCEPT
                !.sh = Assign(d.sh,
                    [LEAK_DETECTED |-> IF c # "none" THEN Str("true") ELSE Str("false"),
                     LEAK_SEVERITY |-> Str(Escalate("none", c))]),
                !.types = IF c # "none" THEN << "HTTP objects" >> ELSE << >>]
        ELSE [d EXCEPT !.sh = Assign(d.sh, [LEAK_SEVERITY |-> Str(c)])]

\* "Check general objects if available"
CheckGeneralObjects(scr, bl, d) ==
    IF Tracking(scr, d.sh) /\ NonEmpty(d.sh["PROMISES_DIFF"])
    THEN LET c == GeneralClass(d.sh["PROMISES_DIFF"], d.sh["FUNCTIONS_DIFF"],
                               d.sh["ARRAYS_DIFF"])
         IN [d EXCEPT
               !.sh = Assign(d.sh,
                   [LEAK_DETECTED |-> IF c # "none" THEN Str("true")
                                      ELSE d.sh["LEAK_DETECTED"],
                    LEAK_SEVERITY |-> Str(Escalate(d.sh["LEAK_SEVERITY"].s, c))]),
               !.types = IF c # "none" THEN Append(@, "general objects") ELSE @]
    ELSE d

\* "Report findings": the verdict that is printed
ReportLeak(scr, bl, d) ==
    LET verdict ==
          IF scr \in ComprehensiveScripts
          THEN IF d.sh["LEAK_DETECTED"] = Str("true")
               THEN IF d.sh["LEAK_SEVERITY"] = Str("critical")
                    THEN "verdict_critical" ELSE "verdict_moderate"
               ELSE "verdict_none"
          ELSE "verdict_" \o d.sh["LEAK_SEVERITY"].s
    IN [d EXCEPT !.rep = @ \cup {verdict}]

\* test-docker-node.sh: "Check object count differences if we're tracking them"
NodeObjects(scr, bl, d) ==
    IF d.sh["TRACK_OBJECTS"] = Str("true") /\ Present(bl["POST_LOAD_HEAP"])
    THEN LET h == JqFieldOr0(bl["POST_LOAD_HEAP"], "Headers")
             r == JqFieldOr0(bl["POST_LOAD_HEAP"], "NodeHTTPResponse")
             a == JqFieldOr0(bl["POST_LOAD_HEAP"], "Arguments")
             k == JqFieldOr0(bl["POST_LOAD_HEAP"], "NodeHTTPServerSocket")
             hd == Minus(h, d.sh["BASELINE_HEADERS"])
             rd == Minus(r, d.sh["BASELINE_RESPONSES"])
             ad == Minus(a, d.sh["BASELINE_ARGUMENTS"])
         IN [d EXCEPT
               !.sh = Assign(d.sh,
                   [POST_HEADERS |-> h, POST_RESPONSES |-> r,
                    POST_ARGUMENTS |-> a, POST_SOCKETS |-> k,
                    HEADERS_DIFF |-> hd, RESPONSES_DIFF |-> rd, ARGUMENTS_DIFF |-> ad,
                    SOCKETS_DIFF |-> Minus(k, d.sh["BASELINE_SOCKETS"])]),
               !.rep = @ \cup {"http_analysis"}
                         \cup (IF Gt(hd, NodeHttpGrowth) \/ Gt(rd, NodeHttpGrowth)
                                  \/ Gt(ad, NodeArgumentsGrowth)
                               THEN {"node_http_growth"} ELSE {"node_http_stable"})]
    ELSE d

\* test-docker-node.sh: "Determine leak severity for Node.js"
NodeSeverity(scr, bl, d) ==
    [d EXCEPT
       !.sh = Assign(d.sh,
           [LEAK_SEVERITY |-> Str(NodeClass(d.sh["RSS_DIFF"], d.sh["HEAP_USED_DIFF"]))]),
       !.rep = @ \cup {"severity_line"}]

\* the jq block after the delayed probe: extraction and differences
DelayedExtract(scr, bl, d) ==
    IF scr = "node"
    THEN LET rss == JqField(bl["FINAL_MEMORY"], "rss")
             hu == JqField(bl["FINAL_MEMORY"], "heapUsed")
         IN [d EXCEPT
               !.sh = Assign(d.sh,
                   [FINAL_RSS |-> rss, FINAL_HEAP_USED |-> hu,
                    CONTINUED_RSS_DIFF |-> Minus(rss, d.sh["POST_RSS"]),
                    CONTINUED_HEAP_DIFF |-> Minus(hu, d.sh["POST_HEAP_USED"])]),
               !.rep = @ \cup {"growth_memory"}]
    ELSE LET h == JqField(bl["DELAYED"], "Headers")
             r == JqField(bl["DELAYED"], "NodeHTTPResponse")
             a == JqField(bl["DELAYED"], "Arguments")
             k == JqField(bl["DELAYED"], "NodeHTTPServerSocket")
         IN [d EXCEPT
               !.sh = Assign(d.sh,
                   [DELAYED_HEADERS |-> h, DELAYED_RESPONSES |-> r,
                    DELAYED_ARGUMENTS |-> a, DELAYED_SOCKETS |-> k,
                    DELAYED_HEADERS_DIFF |-> Minus(h, d.sh["POST_HEADERS"]),
                    DELAYED_RESPONSES_DIFF |-> Minus(r, d.sh["POST_RESPONSES"]),
                    DELAYED_ARGUMENTS_DIFF |-> Minus(a, d.sh["POST_ARGUMENTS"]),
                    DELAYED_SOCKETS_DIFF |-> Minus(k, d.sh["POST_SOCKETS"])]),
               !.rep = @ \cup {"growth_http"}]

\* the test that decides whether DELAYED_ALL is fetched
DelayedAllWanted(scr, s) ==
    Tracking(scr, s) /\ NonEmpty(s["POST_PROMISES"])

\* "Check continued growth in general objects if available", after DELAYED_ALL
DelayedAllExtract(scr, bl, d) ==
    IF Present(bl["DELAYED_ALL"])
    THEN LET p == JqFieldOr0(bl["DELAYED_ALL"], "Promise")
             a == JqFieldOr0(bl["DELAYED_ALL"], "Array")
             f == JqFieldOr0(bl["DELAYED_ALL"], "Function")
         IN [d EXCEPT
               !.sh = Assign(d.sh,
                   [DELAYED_PROMISES |-> p, DELAYED_ARRAYS |-> a, DELAYED_FUNCTIONS |-> f,
                    DELAYED_PROMISES_DIFF |-> Minus(p, d.sh["POST_PROMISES"]),
                    DELAYED_ARRAYS_DIFF |-> Minus(a, d.sh["POST_ARRAYS"]),
                    DELAYED_FUNCTIONS_DIFF |-> Minus(f, d.sh["POST_FUNCTIONS"])]),
               !.rep = @ \cup {"growth_general"}]
    ELSE d

\* "Analyze continued growth severity"
Growth(scr, bl, d) ==
    IF scr = "node"
    THEN LET tracked == d.sh["TRACK_OBJECTS"] = Str("true") /\ Present(bl["FINAL_HEAP"])
             h == JqFieldOr0(bl["FINAL_HEAP"], "Headers")
             r == JqFieldOr0(bl["FINAL_HEAP"], "NodeHTTPResponse")
             hd == Minus(h, d.sh["POST_HEADERS"])
             rd == Minus(r, d.sh["POST_RESPONSES"])
             s1 == IF tracked
                   THEN Assign(d.sh, [FINAL_HEADERS |-> h, FINAL_RESPONSES |-> r,
                                      CONTINUED_HEADERS_DIFF |-> hd,
                                      CONTINUED_RESPONSES_DIFF |-> rd])
                   ELSE d.sh
         IN [d EXCEPT
               !.sh = s1,
               !.rep = @ \cup (IF tracked /\ (Gt(hd, HttpGrowth) \/ Gt(rd, HttpGrowth))
                               THEN {"node_http_continued"} ELSE {})
                         \cup (IF Gt(d.sh["CONTINUED_RSS_DIFF"], NodeRssContinued)
                                  \/ Gt(d.sh["CONTINUED_HEAP_DIFF"], NodeHeapContinued)
                               THEN {"growth_continues"} ELSE {"growth_stabilized"})]
    ELSE LET http == HttpGrowing(d.sh["DELAYED_HEADERS_DIFF"], d.sh["DELAYED_RESPONSES_DIFF"],
                                 d.sh["DELAYED_SOCKETS_DIFF"])
             general == Tracking(scr, d.sh) /\ NonEmpty(d.sh["DELAYED_PROMISES_DIFF"])
                        /\ GeneralGrowing(d.sh["DELAYED_PROMISES_DIFF"],
                                          d.sh["DELAYED_ARRAYS_DIFF"],
                                          d.sh["DELAYED_FUNCTIONS_DIFF"])
         IN [d EXCEPT
               !.sh = Assign(d.sh,
                   [CONTINUED_GROWTH |-> IF http \/ general THEN Str("true")
                                         ELSE Str("false")]),
               !.gtypes = (IF http THEN << "HTTP objects" >> ELSE << >>)
                          \o (IF general THEN << "general objects" >> ELSE << >>),
               !.rep = @ \cup (IF http \/ general THEN {"growth_continues"}
                               ELSE {"growth_stabilized"})]

\* the final summary; its "Leak severity" line is printed by local/docker only
\* if [ "$LEAK_DETECTED" = true ], by the other scripts whenever jq is available
Summary(scr, jq, d) ==
    [d EXCEPT
       !.rep = @ \cup {"summary"}
                 \cup (IF jq /\ (scr \notin {"local", "docker"}
                                 \/ d.sh["LEAK_DETECTED"] = Str("true"))
                       THEN {"summary_severity"} ELSE {})]

\* the block executed at a computing step p
Block(p, scr, bl, d, haveBc) ==
    CASE p = "baseline_extract" -> BaselineExtract(scr, bl, d)
      [] p = "baseline_all_extract" -> BaselineAllExtract(scr, bl, d)
      [] p = "post_extract" -> PostExtract(scr, bl, d)
      [] p = "post_all_extract" -> PostAllExtract(scr, bl, d)
      [] p = "leak_rates" -> LeakRates(scr, bl, d, haveBc)
      [] p = "check_http" -> CheckHttpObjects(scr, bl, d)
      [] p = "check_general" -> CheckGeneralObjects(scr, bl, d)
      [] p = "report_leak" -> ReportLeak(scr, bl, d)
      [] p = "node_objects" -> NodeObjects(scr, bl, d)
      [] p = "node_severity" -> NodeSeverity(scr, bl, d)
      [] p = "delayed_extract" -> DelayedExtract(scr, bl, d)
      [] p = "delayed_all_extract" -> DelayedAllExtract(scr, bl, d)
      [] OTHER -> Growth(scr, bl, d)

BlockSteps == {"baseline_extract", "baseline_all_extract", "post_extract",
               "post_all_extract", "leak_rates", "check_http", "check_general",
               "report_leak", "node_objects", "node_severity", "delayed_extract",
               "delayed_all_extract", "growth"}

-----------------------------------------------------------------------------
(* Heap censuses the runtime may report *)

\* README, "Actual Behavior (Bun)": before the load test / after 1000 requests
ReadmeBefore ==
    [k \in AllKeys |-> CASE k = "Headers" -> 54 [] k = "NodeHTTPResponse" -> 50
                         [] k = "Arguments" -> 67 [] OTHER -> 0]
ReadmeAfter ==
    [k \in AllKeys |-> CASE k = "Headers" -> 1338 [] k = "NodeHTTPResponse" -> 1334
                         [] k = "Arguments" -> 1352 [] OTHER -> 0]

\* g with the counts of the keys ks changed by the differences dv
Grown(g, dv) == [k \in AllKeys |-> IF k \in DOMAIN dv THEN g[k] + dv[k] ELSE g[k]]

\* differences of a count at and above its thresholds
DiffValues(lo, hi) == {lo, lo + Spread, hi, hi + Spread}
GrowthValues(t) == {0, t, t + Spread}

-----------------------------------------------------------------------------
(* The driver *)

Last(seq) == seq[Len(seq)]
\* the phase log keeps each phase once for each time it is entered
Note(ev) == IF phaseLog # << >> /\ Last(phaseLog) = ev THEN phaseLog
            ELSE Append(phaseLog, ev)

Cur == DriverState(sh, LEAK_TYPES, GROWTH_TYPES, report)

\* exit status of a curl that could not connect (7) or got no reply (52)
CurlStatus == IF waiting THEN 52 ELSE 7

\* the curl the script is blocked on has a response to read
Answered == waiting /\ response # NoResponse /\ response # ConnLost

\* curl fails: nothing listens on the port, or the connection was closed
CurlFails == (~waiting /\ serverState # "up") \/ (waiting /\ response = ConnLost)

\* variant of Exit: no EXIT trap runs, the server is left as it is
ExitNoTrap(status) ==
    /\ pc' = "exited"
    /\ exitStatus' = status
    /\ serverState' = serverState

\* the script ends; the EXIT trap, once set, runs the cleanup function
Exit(status) ==
    /\ pc' = "exited"
    /\ exitStatus' = status
    /\ serverState' = IF trapSet THEN "stopped" ELSE serverState

-----------------------------------------------------------------------------
(* The memory section of the /memory response *)

\* 1024 * 1024 bytes
BytesPerMB == 1024 * 1024

\* variant of ToMB: the megabytes are truncated
ToMBFloor(bytes) == bytes \div BytesPerMB

\* Math.round(bytes / 1024 / 1024)
ToMB(bytes) == (bytes + BytesPerMB \div 2) \div BytesPerMB

\* variant of HeapUtilization: the percentage is truncated
HeapUtilizationFloor(heapUsed, heapTotal) == (100 * heapUsed) \div heapTotal

\* Math.round((memoryUsage.heapUsed / memoryUsage.heapTotal) * 100)
HeapUtilization(heapUsed, heapTotal) == (2 * 100 * heapUsed + heapTotal) \div (2 * heapTotal)

\* thresholds of memoryTrend
HighUtilization == 80
HighRssMB == 512
VeryHighRssMB == 1024
HighObjectCount == 100000

\* memoryUsageMB (the three values the trend reads or the drivers use)
MemoryUsageMB(u) ==
    [rss |-> ToMB(u.rss), heapUsed |-> ToMB(u.heapUsed), heapTotal |-> ToMB(u.heapTotal)]

\* memoryTrend.recommendations, in the order they are pushed
Recommendations(util, rssMB, avail, objectCount) ==
    (IF util > HighUtilization THEN << "investigate_leaks" >> ELSE << >>)
      \o (IF rssMB > VeryHighRssMB THEN << "high_rss" >> ELSE << >>)
      \o (IF avail /\ objectCount > HighObjectCount THEN << "high_object_count" >> ELSE << >>)

\* the checks of leakIndicators, in the order of the code
LeakThresholds ==
    << [type |-> "Headers", limit |-> 100],
       [type |-> "NodeHTTPResponse", limit |-> 100],
       [type |-> "Arguments", limit |-> 1000],
       [type |-> "Promise", limit |-> 10000],
       [type |-> "Array", limit |-> 50000],
       [type |-> "Function", limit |-> 20000] >>

\* objectTypeCounts.T: the count of the entry of type t, undefined (here 0,
\* as falsy) when the mapping has none
CountOf(entries, t) ==
    IF \E i \in 1..Len(entries) : entries[i].type = t
    THEN entries[CHOOSE i \in 1..Len(entries) : entries[i].type = t].count
    ELSE 0

\* variant of Exceeded: a count at the limit already counts
ExceededOrEqual(entries, th) == CountOf(entries, th.type) >= th.limit

\* objectTypeCounts.T && objectTypeCounts.T > limit
Exceeded(entries, th) == CountOf(entries, th.type) > th.limit

\* leakIndicators after the block guarded by heapStats?.objectTypeCounts
RECURSIVE Pushed(_, _)
Pushed(entries, checks) ==
    IF checks = << >> THEN << >>
    ELSE (IF Exceeded(entries, Head(checks)) THEN << Head(checks).type >> ELSE << >>)
           \o Pushed(entries, Tail(checks))

\* leakIndicators.length > 0 ? leakIndicators : null
LeakIndicators(avail, entries) ==
    LET list == IF avail THEN Pushed(entries, LeakThresholds) ELSE << >>
    IN [null |-> list = << >>, list |-> list]

\* response.memory: usage, trend, leakIndicators
MemorySection(rt, avail, entries) ==
    LET mb == MemoryUsageMB(rt.memoryUsage)
        util == HeapUtilization(rt.memoryUsage.heapUsed, rt.memoryUsage.heapTotal)
    IN [usage |-> mb,
        heapUtilization |-> util,
        isHighMemoryUsage |-> mb.rss > HighRssMB,
        recommendations |-> Recommendations(util, mb.rss, avail, rt.objectCount),
        leakIndicators |-> LeakIndicators(avail, entries)]

\* nothing reported, nothing computed
NoRuntime == [memoryUsage |-> [rss |-> 0, heapUsed |-> 0, heapTotal |-> 0], objectCount |-> 0]
NoMemory ==
    [usage |-> [rss |-> 0, heapUsed |-> 0, heapTotal |-> 0], heapUtilization |-> 0,
     isHighMemoryUsage |-> FALSE, recommendations |-> << >>,
     leakIndicators |-> [null |-> TRUE, list |-> << >>]]

\* the process after server.listen(...) and the two process.on(...): the
\* socket listens, nothing is connected, no signal has arrived
ProcListening ==
    [listening |-> TRUE, accepted |-> 0, conns |-> 0, received |-> << >>, closeCallbacks |-> 0,
     alive |-> TRUE, exitCode |-> 0, exits |-> 0]

\* the environments in the order in which the runner tests them, and the
\* option that selects each
Environments ==
    << "local", "docker", "node", "node-bun", "ubuntu-bun", "debian-bun", "alpine-bun" >>
Options ==
    << "--local-only", "--docker-only", "--node-only", "--node-bun-only",
       "--ubuntu-bun-only", "--debian-bun-only", "--alpine-bun-only" >>

\* neither probe of the HTTP-object counts has reached the server
NoMarks == [baseline |-> 0, postload |-> 0]

\* no runner is running
RunnerOff ==
    [version |-> "seven", arg |-> "", pc |-> "off", RUN |-> {}, at |-> 1, test |-> "none",
     EXIT_CODE |-> [i \in 1..Len(Environments) |-> 0], ran |-> << >>, notFound |-> {},
     servers |-> 0, TOTAL_TESTS |-> 0, SUCCESSFUL_TESTS |-> 0, verdict |-> "", status |-> 0]

RestIdle ==
    /\ runtime = NoRuntime
    /\ memory = NoMemory
    /\ proc = ProcListening
    /\ runner = RunnerOff
    /\ marks = NoMarks

\* the server's own bookkeeping before any /memory request: no handler is
\* suspended, no snapshot was written, nothing was answered
ServerIdle ==
    /\ handlers = << >>
    /\ files = 0
    /\ replies = << >>
    /\ objectTypeCounts = << >>
    /\ topObjectTypes = << >>
    /\ RestIdle

Init ==
    /\ script \in Scripts
    /\ JQ_AVAILABLE = ""
    /\ toolInstalled = FALSE
    /\ pc = "deps"
    /\ exitStatus = 0
    /\ trapSet = FALSE
    /\ waiting = FALSE
    /\ RETRY_COUNT = 0
    /\ loopI = 0
    /\ blob = BlobInit
    /\ sh = ShInit
    /\ LEAK_TYPES = << >>
    /\ GROWTH_TYPES = << >>
    /\ report = {}
    /\ phaseLog = << >>
    /\ serverState = "off"
    /\ jscAvailable = FALSE
    /\ inflight = << >>
    /\ response = NoResponse
    /\ served = [health |-> 0, memory |-> 0]
    /\ ServerIdle

\* variant of DepsCheck: a missing jq ends the script like a missing tool
DepsCheckJqRequired ==
    /\ pc = "deps"
    /\ \E tool \in BOOLEAN, jq \in BOOLEAN :
         /\ toolInstalled' = tool
         /\ IF tool /\ jq
            THEN /\ JQ_AVAILABLE' = "true"
                 /\ pc' = "setup"
                 /\ UNCHANGED << exitStatus, serverState >>
            ELSE /\ Exit(1)
                 /\ UNCHANGED JQ_AVAILABLE
    /\ UNCHANGED << restVars, serverVars, script, trapSet, waiting, RETRY_COUNT, loopI, shellVars, phaseLog,
                    jscAvailable, inflight, response, served >>

\* "Check if bun/docker is installed", "Check if jq is installed"
DepsCheck ==
    /\ pc = "deps"
    /\ \E tool \in BOOLEAN, jq \in BOOLEAN :
         /\ toolInstalled' = tool
         /\ IF tool
            THEN /\ JQ_AVAILABLE' = (IF jq THEN "true" ELSE "false")
                 /\ pc' = "setup"
                 /\ UNCHANGED << exitStatus, serverState >>
            ELSE /\ Exit(1)
                 /\ UNCHANGED JQ_AVAILABLE
    /\ UNCHANGED << restVars, serverVars, script, trapSet, waiting, RETRY_COUNT, loopI, shellVars, phaseLog,
                    jscAvailable, inflight, response, served >>

\* install/build, start the server in the background, set the EXIT trap.
\* test-docker-node.sh starts Node.js, which has no bun:jsc; the Bun images and
\* local Bun have it unless the import fails.
StartServer ==
    /\ pc = "setup"
    /\ serverState' = "starting"
    /\ \E jsc \in BOOLEAN : jscAvailable' = (script # "node" /\ jsc)
    /\ trapSet' = TRUE
    /\ pc' = "ready_loop"
    /\ UNCHANGED << restVars, serverVars, script, JQ_AVAILABLE, toolInstalled, exitStatus, waiting, RETRY_COUNT,
                    loopI, shellVars, phaseLog, inflight, response, served >>

\* variant of ReadyRefused: the loop retries without counting
ReadyRefusedUncounted ==
    /\ pc \in {"ready_loop", "ready_verify"}
    /\ CurlFails
    /\ waiting' = FALSE
    /\ response' = NoResponse
    /\ IF pc = "ready_verify"
       THEN /\ Exit(1)
            /\ UNCHANGED RETRY_COUNT
       ELSE /\ RETRY_COUNT' = RETRY_COUNT /\ pc' = pc
            /\ UNCHANGED << exitStatus, serverState >>
    /\ UNCHANGED << restVars, serverVars, script, JQ_AVAILABLE, toolInstalled, trapSet, loopI, shellVars,
                    phaseLog, jscAvailable, inflight, served >>

\* check_server while nothing listens on the port: curl fails at once.
\* In the retry loop this counts a retry or ends the loop; in the final
\* `if ! check_server` it ends the script with status 1.
ReadyRefused ==
    /\ pc \in {"ready_loop", "ready_verify"}
    /\ CurlFails
    /\ waiting' = FALSE
    /\ response' = NoResponse
    /\ IF pc = "ready_verify"
       THEN /\ Exit(1)
            /\ UNCHANGED RETRY_COUNT
       ELSE /\ IF RETRY_COUNT < MAX_RETRIES
               THEN RETRY_COUNT' = RETRY_COUNT + 1 /\ pc' = pc
               ELSE RETRY_COUNT' = RETRY_COUNT /\ pc' = "ready_verify"
            /\ UNCHANGED << exitStatus, serverState >>
    /\ UNCHANGED << restVars, serverVars, script, JQ_AVAILABLE, toolInstalled, trapSet, loopI, shellVars,
                    phaseLog, jscAvailable, inflight, served >>

\* check_server: curl -s http://localhost:3000/health
ReadyIssue ==
    /\ pc \in {"ready_loop", "ready_verify"}
    /\ ~waiting
    /\ serverState = "up"
    /\ inflight' = Append(inflight, "/health")
    /\ waiting' = TRUE
    /\ phaseLog' = Note("ready")
    /\ UNCHANGED << restVars, serverVars, script, JQ_AVAILABLE, toolInstalled, pc, exitStatus, trapSet, RETRY_COUNT,
                    loopI, shellVars, serverState, jscAvailable, response, served >>

\* check_server returned 0: the loop ends, or the measurement begins
ReadyOk ==
    /\ pc \in {"ready_loop", "ready_verify"}
    /\ Answered
    /\ response' = NoResponse
    /\ waiting' = FALSE
    /\ pc' = IF pc = "ready_loop" THEN "ready_verify" ELSE First
    /\ UNCHANGED << restVars, serverVars, script, JQ_AVAILABLE, toolInstalled, exitStatus, trapSet, RETRY_COUNT,
                    loopI, shellVars, phaseLog, serverState, jscAvailable, inflight, served >>

\* whether the probe at step p is made
ProbeWanted(p) ==
    CASE p = "post_all" -> PostAllWanted(script, sh)
      [] p = "delayed_all" -> DelayedAllWanted(script, sh)
      [] OTHER -> TRUE

\* X=$(get_...): curl -s http://localhost:3000/memory is started
ProbeIssue ==
    /\ pc \in ProbeSteps
    /\ ~waiting
    /\ ProbeWanted(pc)
    /\ serverState = "up"
    /\ inflight' = Append(inflight, "/memory")
    /\ waiting' = TRUE
    /\ phaseLog' = Note(PhaseOf(pc))
    /\ UNCHANGED << restVars, serverVars, script, JQ_AVAILABLE, toolInstalled, pc, exitStatus, trapSet, RETRY_COUNT,
                    loopI, shellVars, serverState, jscAvailable, response, served >>

\* the `if` around an optional probe is false: the whole branch is skipped
ProbeSkip ==
    /\ pc \in ProbeSteps
    /\ ~waiting
    /\ ~ProbeWanted(pc)
    /\ pc' = AfterBlock(pc)
    /\ UNCHANGED << restVars, serverVars, script, JQ_AVAILABLE, toolInstalled, exitStatus, trapSet, waiting,
                    RETRY_COUNT, loopI, shellVars, phaseLog, serverState, jscAvailable,
                    inflight, response, served >>

\* curl returned: the (filtered) body becomes the value of the variable
ProbeCapture ==
    /\ pc \in ProbeSteps
    /\ Answered
    /\ blob' = [blob EXCEPT ![BlobOf(pc)] = Filter(pc, Jq, response)]
    /\ response' = NoResponse
    /\ waiting' = FALSE
    /\ pc' = After(pc)
    /\ UNCHANGED << restVars, serverVars, script, JQ_AVAILABLE, toolInstalled, exitStatus, trapSet, RETRY_COUNT,
                    loopI, sh, LEAK_TYPES, GROWTH_TYPES, report, phaseLog, serverState,
                    jscAvailable, inflight, served >>

\* variant of LoadIssue: curl started in the background, the loop does not wait
LoadIssueBackground ==
    /\ pc = "load"
    /\ loopI < LoadRequests
    /\ loopI' = loopI + 1
    /\ inflight' = Append(inflight, "/health")
    /\ waiting' = TRUE
    /\ phaseLog' = Note("load")
    /\ UNCHANGED << restVars, serverVars, script, JQ_AVAILABLE, toolInstalled, pc, exitStatus, trapSet, RETRY_COUNT,
                    shellVars, serverState, jscAvailable, response, served >>

\* for i in {1..1000}; do curl -s http://localhost:3000/health > /dev/null
LoadIssue ==
    /\ pc = "load"
    /\ ~waiting
    /\ loopI < LoadRequests
    /\ serverState = "up"
    /\ loopI' = loopI + 1
    /\ inflight' = Append(inflight, "/health")
    /\ waiting' = TRUE
    /\ phaseLog' = Note("load")
    /\ UNCHANGED << restVars, serverVars, script, JQ_AVAILABLE, toolInstalled, pc, exitStatus, trapSet, RETRY_COUNT,
                    shellVars, serverState, jscAvailable, response, served >>

\* the curl of the loop body returned
LoadComplete ==
    /\ pc = "load"
    /\ Answered
    /\ response' = NoResponse
    /\ waiting' = FALSE
    /\ UNCHANGED << restVars, serverVars, script, JQ_AVAILABLE, toolInstalled, pc, exitStatus, trapSet, RETRY_COUNT,
                    loopI, shellVars, phaseLog, serverState, jscAvailable, inflight, served >>

\* variant of LoadDone: the loop runs for i = 1 .. 999
LoadDoneEarly ==
    /\ pc = "load"
    /\ ~waiting
    /\ loopI = LoadRequests - 1
    /\ pc' = After(pc)
    /\ UNCHANGED << restVars, serverVars, script, JQ_AVAILABLE, toolInstalled, exitStatus, trapSet, waiting,
                    RETRY_COUNT, loopI, shellVars, phaseLog, serverState, jscAvailable,
                    inflight, response, served >>

\* done: the loop has run for i = 1 .. 1000
LoadDone ==
    /\ pc = "load"
    /\ ~waiting
    /\ loopI = LoadRequests
    /\ pc' = After(pc)
    /\ UNCHANGED << restVars, serverVars, script, JQ_AVAILABLE, toolInstalled, exitStatus, trapSet, waiting,
                    RETRY_COUNT, loopI, shellVars, phaseLog, serverState, jscAvailable,
                    inflight, response, served >>

\* a jq block of the script runs; `bc` may or may not be installed
RunBlock ==
    /\ pc \in BlockSteps
    /\ \E haveBc \in (IF pc = "leak_rates" THEN BOOLEAN ELSE {TRUE}) :
         LET d == Block(pc, script, blob, Cur, haveBc)
         IN /\ sh' = d.sh
            /\ LEAK_TYPES' = d.types
            /\ GROWTH_TYPES' = d.gtypes
            /\ report' = d.rep
    /\ pc' = After(pc)
    /\ UNCHANGED << restVars, serverVars, script, JQ_AVAILABLE, toolInstalled, exitStatus, trapSet, waiting,
                    RETRY_COUNT, loopI, blob, phaseLog, serverState, jscAvailable,
                    inflight, response, served >>

\* variant of Wait: a request is sent to the server during the sleep
WaitUnderLoad ==
    /\ pc = "wait"
    /\ phaseLog' = Note("wait")
    /\ inflight' = Append(inflight, "/health")
    /\ pc' = After(pc)
    /\ UNCHANGED << restVars, serverVars, script, JQ_AVAILABLE, toolInstalled, exitStatus, trapSet, waiting,
                    RETRY_COUNT, loopI, shellVars, serverState, jscAvailable,
                    response, served >>

\* sleep 120
Wait ==
    /\ pc = "wait"
    /\ phaseLog' = Note("wait")
    /\ pc' = After(pc)
    /\ UNCHANGED << restVars, serverVars, script, JQ_AVAILABLE, toolInstalled, exitStatus, trapSet, waiting,
                    RETRY_COUNT, loopI, shellVars, serverState, jscAvailable,
                    inflight, response, served >>

\* the summary is printed and the script ends with status 0
Finish ==
    /\ pc = "summary"
    /\ report' = Summary(script, Jq, Cur).rep
    /\ phaseLog' = Note("report")
    /\ Exit(0)
    /\ UNCHANGED << restVars, serverVars, script, JQ_AVAILABLE, toolInstalled, trapSet, waiting, RETRY_COUNT,
                    loopI, blob, sh, LEAK_TYPES, GROWTH_TYPES, jscAvailable,
                    inflight, response, served >>

-----------------------------------------------------------------------------
(* The server, as the drivers observe it *)

\* server.listen(PORT, ...): the socket accepts connections
ServerReady ==
    /\ serverState = "starting"
    /\ serverState' = "up"
    /\ UNCHANGED << restVars, serverVars, script, JQ_AVAILABLE, toolInstalled, pc, exitStatus, trapSet, waiting,
                    RETRY_COUNT, loopI, shellVars, phaseLog, jscAvailable,
                    inflight, response, served >>

\* variant of HandleHealth: the answer depends on what /memory left behind
HandleHealthShared ==
    /\ serverState = "up"
    /\ inflight # << >>
    /\ Head(inflight) = "/health"
    /\ inflight' = Tail(inflight)
    /\ response' = IF files > 0 \/ handlers # << >>
                   THEN [HealthResponse EXCEPT !.status = 500, !.body = "error"]
                   ELSE HealthResponse
    /\ served' = [served EXCEPT !.health = @ + 1]
    /\ UNCHANGED << restVars, serverVars, script, JQ_AVAILABLE, toolInstalled, pc, exitStatus, trapSet, waiting,
                    RETRY_COUNT, loopI, shellVars, phaseLog, serverState, jscAvailable >>

\* app.get("/health")
HandleHealth ==
    /\ serverState = "up"
    /\ inflight # << >>
    /\ Head(inflight) = "/health"
    /\ inflight' = Tail(inflight)
    /\ response' = HealthResponse
    /\ served' = [served EXCEPT !.health = @ + 1]
    /\ UNCHANGED << restVars, serverVars, script, JQ_AVAILABLE, toolInstalled, pc, exitStatus, trapSet, waiting,
                    RETRY_COUNT, loopI, shellVars, phaseLog, serverState, jscAvailable >>

\* the request the driver waits for at step p is the n-th the server receives
Marked(p, n) ==
    CASE p = "baseline_stats" -> [marks EXCEPT !.baseline = n]
      [] p = "post_stats" -> [marks EXCEPT !.postload = n]
      [] OTHER -> marks

\* app.get("/memory"): process.memoryUsage() and, when bun:jsc can be imported,
\* heapStats(); the census is whatever the runtime reports, one of Heaps
HandleMemory(Heaps) ==
    /\ serverState = "up"
    /\ inflight # << >>
    /\ Head(inflight) = "/memory"
    /\ inflight' = Tail(inflight)
    /\ \E g \in Heaps : response' = MemoryResponse(jscAvailable, g)
    /\ served' = [served EXCEPT !.memory = @ + 1]
    /\ marks' = Marked(pc, served.health + served.memory + 1)
    /\ UNCHANGED << runtime, memory, proc, runner, serverVars, script, JQ_AVAILABLE, toolInstalled, pc,
                    exitStatus, trapSet, waiting, RETRY_COUNT, loopI, shellVars, phaseLog,
                    serverState, jscAvailable >>

-----------------------------------------------------------------------------
(* The /memory handler, step by step, under concurrent requests *)

\* requests a client sends to the server during one exploration
MaxRequests == 3

\* the request lines a client may send
Queries == {"/health", "/memory", "/memory?snapshot=true", "/memory?snapshot=TRUE"}

\* variant of WantsSnapshot: any value of the parameter asks for a snapshot
WantsSnapshotLoose(q) == q \notin {"/health", "/memory"}

\* req.query.snapshot === "true"
WantsSnapshot(q) == q = "/memory?snapshot=true"

\* the keys of the two bodies the handler sends
ErrorFields == {"error", "message", "timestamp"}
ResponseFields == {"timestamp", "uptime", "memory", "heap", "snapshot", "instructions"}

\* what `import("bun:jsc")` and heapStats() may do: the module is absent, the
\* call throws, it returns null, it returns an object without
\* objectTypeCounts, or it returns the statistics
HeapOutcomes(jsc) == IF jsc THEN {"throws", "null_result", "malformed", "stats"} ELSE {"absent"}

\* heapStats after the inner try/catch: null unless an object was returned
HeapStatsOf(outcome) ==
    CASE outcome = "stats" -> "stats"
      [] outcome = "malformed" -> "malformed"
      [] OTHER -> "null"

\* variant of ErrorReply: the body also carries the stack of the error
ErrorReplyWithStack(h) ==
    [query |-> h.query, status |-> 500, fields |-> ErrorFields \cup {"stack"}, memory |-> FALSE,
     heap |-> "absent", snapshot |-> "absent", outcome |-> h.outcome,
     snapshotInfo |-> h.snap, wrote |-> h.wrote]

\* the outer catch: res.status(500).json({ error, message, timestamp })
ErrorReply(h) ==
    [query |-> h.query, status |-> 500, fields |-> ErrorFields, memory |-> FALSE,
     heap |-> "absent", snapshot |-> "absent", outcome |-> h.outcome,
     snapshotInfo |-> h.snap, wrote |-> h.wrote]

\* res.status(200).json(response)
OkReply(h) ==
    [query |-> h.query, status |-> 200, fields |-> ResponseFields, memory |-> TRUE,
     heap |-> h.heap, snapshot |-> h.snap, outcome |-> h.outcome,
     snapshotInfo |-> h.snap, wrote |-> h.wrote]

\* memoryTrend, leakIndicators and the response object: the only step that
\* can throw is Object.entries(heapStats.objectTypeCounts), for a heapStats
\* object without objectTypeCounts
Respond(h) == IF h.heap = "malformed" THEN ErrorReply(h) ELSE OkReply(h)

\* variant of SnapshotDone: a failing writeHeapSnapshot reaches the outer catch
SnapshotDoneUncaught(h, ok) ==
    IF ok THEN Respond([h EXCEPT !.snap = "created", !.wrote = TRUE])
    ELSE ErrorReply([h EXCEPT !.snap = "failed"])

\* the inner try/catch around writeHeapSnapshot, then the rest of the handler
SnapshotDone(h, ok) ==
    Respond([h EXCEPT !.snap = IF ok THEN "created" ELSE "failed", !.wrote = ok])

\* the sequence without its i-th element
Remove(seq, i) == [n \in 1..(Len(seq) - 1) |-> IF n < i THEN seq[n] ELSE seq[n + 1]]

\* the driver variables, which no handler touches
driverVars ==
    << script, JQ_AVAILABLE, toolInstalled, pc, exitStatus, trapSet, waiting, RETRY_COUNT, loopI,
       shellVars, phaseLog >>

\* a client sends a request
Request ==
    /\ serverState = "up"
    /\ served.health + served.memory + Len(inflight) < MaxRequests
    /\ \E q \in Queries : inflight' = Append(inflight, q)
    /\ UNCHANGED << restVars, driverVars, serverVars, serverState, jscAvailable, response, served >>

\* app.get("/memory") up to the first await: process.memoryUsage(), which
\* throws into the outer catch or gives the usage
MemoryBegin ==
    /\ serverState = "up"
    /\ inflight # << >>
    /\ Head(inflight) # "/health"
    /\ inflight' = Tail(inflight)
    /\ served' = [served EXCEPT !.memory = @ + 1]
    /\ LET h == [query |-> Head(inflight), stage |-> "import_jsc", outcome |-> "pending",
                 heap |-> "null", snap |-> "null", wrote |-> FALSE]
       IN \E usageThrows \in BOOLEAN :
            IF usageThrows
            THEN /\ replies' = Append(replies, ErrorReply([h EXCEPT !.outcome = "usage_throws"]))
                 /\ UNCHANGED handlers
            ELSE /\ handlers' = Append(handlers, h)
                 /\ UNCHANGED replies
    /\ UNCHANGED << restVars, driverVars, files, objectTypeCounts, topObjectTypes, serverState,
                    jscAvailable, response >>

\* the handler resumes after `await import("bun:jsc")`: the inner try/catch,
\* then either the await of the snapshot branch or the rest of the handler
MemoryHeap ==
    /\ serverState = "up"
    /\ \E i \in 1..Len(handlers), o \in HeapOutcomes(jscAvailable) :
         /\ handlers[i].stage = "import_jsc"
         /\ LET h == [handlers[i] EXCEPT !.outcome = o, !.heap = HeapStatsOf(o)]
            IN IF WantsSnapshot(h.query)
               THEN /\ handlers' = [handlers EXCEPT ![i] = [h EXCEPT !.stage = "import_v8"]]
                    /\ UNCHANGED replies
               ELSE /\ handlers' = Remove(handlers, i)
                    /\ replies' = Append(replies, Respond(h))
    /\ UNCHANGED << restVars, driverVars, files, objectTypeCounts, topObjectTypes, serverState,
                    jscAvailable, inflight, response, served >>

\* the handler resumes after `await import("v8")`: writeHeapSnapshot writes
\* the file or throws, then the rest of the handler
MemorySnapshot ==
    /\ serverState = "up"
    /\ \E i \in 1..Len(handlers), ok \in BOOLEAN :
         /\ handlers[i].stage = "import_v8"
         /\ handlers' = Remove(handlers, i)
         /\ files' = IF ok THEN files + 1 ELSE files
         /\ replies' = Append(replies, SnapshotDone(handlers[i], ok))
    /\ UNCHANGED << restVars, driverVars, objectTypeCounts, topObjectTypes, serverState,
                    jscAvailable, inflight, response, served >>

\* the server started by hand (`bun run index.ts` or `node`), no driver running
ServerInit ==
    /\ script = "local"
    /\ JQ_AVAILABLE = ""
    /\ toolInstalled = TRUE
    /\ pc = "deps"
    /\ exitStatus = 0
    /\ trapSet = FALSE
    /\ waiting = FALSE
    /\ RETRY_COUNT = 0
    /\ loopI = 0
    /\ blob = BlobInit
    /\ sh = ShInit
    /\ LEAK_TYPES = << >>
    /\ GROWTH_TYPES = << >>
    /\ report = {}
    /\ phaseLog = << >>
    /\ serverState = "up"
    /\ jscAvailable \in BOOLEAN
    /\ inflight = << >>
    /\ response = NoResponse
    /\ served = [health |-> 0, memory |-> 0]
    /\ ServerIdle

ServerNext ==
    \/ Request
    \/ HandleHealth
    \/ MemoryBegin
    \/ MemoryHeap
    \/ MemorySnapshot

ServerSpec == ServerInit /\ [][ServerNext]_vars

-----------------------------------------------------------------------------
(* heap.analysis.topObjectTypes *)

\* .slice(0, 10)
TopLimit == 10

\* the largest number of object types in a generated objectTypeCounts
MaxTypes == 11

\* the counts the generated mappings draw from
Counts == {1, 2}

\* names of object types, in the order the mapping lists them
TypeNames ==
    << "Headers", "NodeHTTPResponse", "Arguments", "NodeHTTPServerSocket", "Promise", "Array",
       "Function", "Object", "string", "Map", "Set", "Symbol", "Error" >>

\* Object.entries(heapStats.objectTypeCounts): the entries in the mapping's order
Entries(n, c) == [i \in 1..n |-> [type |-> TypeNames[i], count |-> c[i]]]

\* one step of the sort with .sort(([, a], [, b]) => Number(b) - Number(a)):
\* e goes behind every entry whose count is not smaller (the sort is stable)
RECURSIVE InsertByCount(_, _)
InsertByCount(sorted, e) ==
    IF sorted = << >> THEN << e >>
    ELSE IF Head(sorted).count >= e.count
         THEN << Head(sorted) >> \o InsertByCount(Tail(sorted), e)
         ELSE << e >> \o sorted

\* variant of InsertByCount: e goes before the entries of equal count
RECURSIVE InsertBeforeEqual(_, _)
InsertBeforeEqual(sorted, e) ==
    IF sorted = << >> THEN << e >>
    ELSE IF Head(sorted).count > e.count
         THEN << Head(sorted) >> \o InsertBeforeEqual(Tail(sorted), e)
         ELSE << e >> \o sorted

RECURSIVE SortByCount(_)
SortByCount(entries) ==
    IF entries = << >> THEN << >>
    ELSE InsertByCount(SortByCount(SubSeq(entries, 1, Len(entries) - 1)),
                       entries[Len(entries)])

RECURSIVE SortUnstable(_)
SortUnstable(entries) ==
    IF entries = << >> THEN << >>
    ELSE InsertBeforeEqual(SortUnstable(SubSeq(entries, 1, Len(entries) - 1)),
                           entries[Len(entries)])

\* variant of TopObjectTypes: entries of equal count come out in reverse order
TopObjectTypesUnstable(entries) ==
    LET sorted == SortUnstable(entries)
    IN SubSeq(sorted, 1, IF Len(sorted) < TopLimit THEN Len(sorted) ELSE TopLimit)

\* Object.entries(...).sort(...).slice(0, 10).map(([type, count]) => ({ type, count }))
TopObjectTypes(entries) ==
    LET sorted == SortByCount(entries)
    IN SubSeq(sorted, 1, IF Len(sorted) < TopLimit THEN Len(sorted) ELSE TopLimit)

\* a handler that has the heap statistics and is about to build the response
TopInit ==
    /\ script = "local"
    /\ JQ_AVAILABLE = ""
    /\ toolInstalled = TRUE
    /\ pc = "top_input"
    /\ exitStatus = 0
    /\ trapSet = FALSE
    /\ waiting = FALSE
    /\ RETRY_COUNT = 0
    /\ loopI = 0
    /\ blob = BlobInit
    /\ sh = ShInit
    /\ LEAK_TYPES = << >>
    /\ GROWTH_TYPES = << >>
    /\ report = {}
    /\ phaseLog = << >>
    /\ serverState = "up"
    /\ jscAvailable = TRUE
    /\ inflight = << >>
    /\ response = NoResponse
    /\ served = [health |-> 0, memory |-> 0]
    /\ handlers = << >>
    /\ files = 0
    /\ replies = << >>
    /\ RestIdle
    /\ \E n \in 0..MaxTypes : \E c \in [1..n -> Counts] : objectTypeCounts = Entries(n, c)
    /\ topObjectTypes = << >>

\* the response object is built: topObjectTypes is computed
ComputeTop ==
    /\ pc = "top_input"
    /\ topObjectTypes' = TopObjectTypes(objectTypeCounts)
    /\ pc' = "top_output"
    /\ UNCHANGED << script, JQ_AVAILABLE, toolInstalled, exitStatus, trapSet, waiting, RETRY_COUNT,
                    loopI, shellVars, phaseLog, serverState, jscAvailable, inflight, response,
                    served, handlers, files, replies, objectTypeCounts, restVars >>

TopNext == ComputeTop

TopSpec == TopInit /\ [][TopNext]_vars

-----------------------------------------------------------------------------
(* The memory section, for what the runtime may report *)

\* resident set sizes around the two thresholds and around the half megabyte
\* at which the rounded value changes
RssInputs ==
    UNION {{t * BytesPerMB, t * BytesPerMB + 1,
            t * BytesPerMB + BytesPerMB \div 2 - 1, t * BytesPerMB + BytesPerMB \div 2,
            (t + 1) * BytesPerMB} : t \in {0, HighRssMB, VeryHighRssMB}}

\* << heapUsed, heapTotal >> around 80 per cent and around a half per cent
HeapInputs ==
    {<< 0, 200 >>, << 29, 200 >>, << 159, 200 >>, << 160, 200 >>, << 161, 200 >>,
     << 162, 200 >>, << 200, 200 >>, << 804, 1000 >>, << 805, 1000 >>, << 806, 1000 >>}

RuntimeInputs ==
    {[memoryUsage |-> [rss |-> r, heapUsed |-> h[1], heapTotal |-> h[2]], objectCount |-> n] :
        r \in RssInputs, h \in HeapInputs, n \in {HighObjectCount}}
    \cup {[memoryUsage |-> [rss |-> 0, heapUsed |-> 100, heapTotal |-> 200], objectCount |-> n] :
        n \in {0, HighObjectCount, HighObjectCount + 1}}

\* a mapping that lists the checked types in the reverse order of the checks;
\* c[i] says whether type i is missing (0), at its limit (1) or above it (2)
RECURSIVE CountsFor(_, _)
CountsFor(c, i) ==
    IF i = 0 THEN << >>
    ELSE (IF c[i] = 0 THEN << >>
          ELSE << [type |-> LeakThresholds[i].type,
                   count |-> LeakThresholds[i].limit + c[i] - 1] >>)
           \o CountsFor(c, i - 1)

CountInputs == {CountsFor(c, Len(LeakThresholds)) : c \in [1..Len(LeakThresholds) -> {0, 1, 2}]}

\* a handler that has read the runtime's figures and is about to analyse them
AnalysisInit ==
    /\ script = "local"
    /\ JQ_AVAILABLE = ""
    /\ toolInstalled = TRUE
    /\ pc = "analysis_input"
    /\ exitStatus = 0
    /\ trapSet = FALSE
    /\ waiting = FALSE
    /\ RETRY_COUNT = 0
    /\ loopI = 0
    /\ blob = BlobInit
    /\ sh = ShInit
    /\ LEAK_TYPES = << >>
    /\ GROWTH_TYPES = << >>
    /\ report = {}
    /\ phaseLog = << >>
    /\ serverState = "up"
    /\ inflight = << >>
    /\ response = NoResponse
    /\ served = [health |-> 0, memory |-> 0]
    /\ handlers = << >>
    /\ files = 0
    /\ replies = << >>
    /\ topObjectTypes = << >>
    /\ memory = NoMemory
    /\ proc = ProcListening
    /\ runner = RunnerOff
    /\ marks = NoMarks
    /\ \/ /\ runtime \in RuntimeInputs
          /\ jscAvailable \in BOOLEAN
          /\ objectTypeCounts \in {CountsFor([i \in 1..Len(LeakThresholds) |-> k], Len(LeakThresholds)) : k \in {0, 1, 2}}
       \/ /\ runtime \in {rt \in RuntimeInputs : rt.memoryUsage.rss = 0 /\ rt.memoryUsage.heapUsed = 100}
          /\ jscAvailable \in BOOLEAN
          /\ objectTypeCounts \in CountInputs

\* memoryUsageMB, memoryTrend and leakIndicators are computed
ComputeMemory ==
    /\ pc = "analysis_input"
    /\ memory' = MemorySection(runtime, jscAvailable, objectTypeCounts)
    /\ pc' = "analysis_output"
    /\ UNCHANGED << script, JQ_AVAILABLE, toolInstalled, exitStatus, trapSet, waiting, RETRY_COUNT,
                    loopI, shellVars, phaseLog, serverState, jscAvailable, inflight, response,
                    served, serverVars, runtime, proc, runner, marks >>

AnalysisNext == ComputeMemory

AnalysisSpec == AnalysisInit /\ [][AnalysisNext]_vars

-----------------------------------------------------------------------------
(* Graceful shutdown *)

\* connections accepted by one process, and signals sent to it
MaxConns == 3
MaxSignals == 3

\* everything but the process
notProc ==
    << script, JQ_AVAILABLE, toolInstalled, pc, exitStatus, trapSet, waiting, RETRY_COUNT, loopI,
       shellVars, phaseLog, serverState, jscAvailable, inflight, response, served, serverVars,
       runtime, memory, runner, marks >>

\* a client connects: only a listening socket accepts
Connect ==
    /\ proc.alive /\ proc.listening
    /\ proc.accepted < MaxConns
    /\ proc' = [proc EXCEPT !.accepted = @ + 1, !.conns = @ + 1]
    /\ UNCHANGED notProc

\* a connection ends: its request was answered and the client closed it
Disconnect ==
    /\ proc.alive
    /\ proc.conns > 0
    /\ proc' = [proc EXCEPT !.conns = @ - 1]
    /\ UNCHANGED notProc

\* process.on("SIGTERM" | "SIGINT"): server.close(callback) stops listening
\* and registers the callback for the 'close' event
Signal ==
    /\ proc.alive
    /\ Len(proc.received) < MaxSignals
    /\ \E sig \in {"SIGTERM", "SIGINT"} :
         proc' = [proc EXCEPT !.received = Append(@, sig),
                              !.listening = FALSE,
                              !.closeCallbacks = @ + 1]
    /\ UNCHANGED notProc

\* variant of Closed: every registered callback calls process.exit
ClosedEveryCallback ==
    /\ proc.alive
    /\ ~proc.listening /\ proc.conns = 0
    /\ proc.closeCallbacks > 0
    /\ proc' = [proc EXCEPT !.alive = FALSE, !.exitCode = 0, !.exits = @ + proc.closeCallbacks]
    /\ UNCHANGED notProc

\* the last connection has ended: 'close' is emitted, the first callback
\* calls process.exit(0) and the process is gone before any other runs
Closed ==
    /\ proc.alive
    /\ ~proc.listening /\ proc.conns = 0
    /\ proc.closeCallbacks > 0
    /\ proc' = [proc EXCEPT !.alive = FALSE, !.exitCode = 0, !.exits = @ + 1]
    /\ UNCHANGED notProc

SignalInit ==
    /\ script = "local"
    /\ JQ_AVAILABLE = ""
    /\ toolInstalled = TRUE
    /\ pc = "deps"
    /\ exitStatus = 0
    /\ trapSet = FALSE
    /\ waiting = FALSE
    /\ RETRY_COUNT = 0
    /\ loopI = 0
    /\ blob = BlobInit
    /\ sh = ShInit
    /\ LEAK_TYPES = << >>
    /\ GROWTH_TYPES = << >>
    /\ report = {}
    /\ phaseLog = << >>
    /\ serverState = "up"
    /\ jscAvailable \in BOOLEAN
    /\ inflight = << >>
    /\ response = NoResponse
    /\ served = [health |-> 0, memory |-> 0]
    /\ ServerIdle

SignalNext ==
    \/ Connect
    \/ Disconnect
    \/ Signal
    \/ Closed

\* connections end, and an emitted 'close' runs its callback
SignalSpec ==
    /\ SignalInit
    /\ [][SignalNext]_vars
    /\ WF_vars(Disconnect)
    /\ WF_vars(Closed)

-----------------------------------------------------------------------------
(* The test runner: run-all-tests.sh in its three versions *)

\* the version with two environments (run-all-tests.sh), with four and with
\* seven: each knows the first environments of the list
Versions == {"two", "four", "seven"}
Known(version) == CASE version = "two" -> 2 [] version = "four" -> 4 [] OTHER -> 7

\* the first argument: nothing, one of the seven options, --help, or another word
Arguments == {"", "--help", "--verbose"} \cup {Options[i] : i \in 1..Len(Options)}

\* the if/elif chain that sets RUN_LOCAL, RUN_DOCKER, ...: the first option the
\* version compares the argument with and that equals it selects its
\* environment alone; the final else selects every environment of the version
Selected(version, arg) ==
    IF \E i \in 1..Known(version) : arg = Options[i]
    THEN {Environments[i] : i \in {j \in 1..Known(version) : arg = Options[j]}}
    ELSE {Environments[i] : i \in 1..Known(version)}

\* the seven-way version parses its arguments with a case: --help prints the
\* usage and exits 0, an unknown word exits 1; the others never look
Parsed(version, arg) ==
    IF version # "seven" THEN "run"
    ELSE IF arg = "--help" THEN "help"
    ELSE IF arg = "" \/ \E i \in 1..Len(Options) : arg = Options[i] THEN "run"
    ELSE "unknown"

\* everything but the runner
notRunner ==
    << script, JQ_AVAILABLE, toolInstalled, pc, exitStatus, trapSet, waiting, RETRY_COUNT, loopI,
       shellVars, phaseLog, serverState, jscAvailable, inflight, response, served, serverVars,
       runtime, memory, proc, marks >>

\* the runner ends before any test: --help, an unknown option, or bun or
\* docker missing
RunnerRefuses ==
    /\ runner.pc = "start"
    /\ \/ /\ Parsed(runner.version, runner.arg) = "help"
          /\ runner' = [runner EXCEPT !.pc = "exited", !.status = 0]
       \/ /\ Parsed(runner.version, runner.arg) = "unknown"
          /\ runner' = [runner EXCEPT !.pc = "exited", !.status = 1]
       \/ /\ Parsed(runner.version, runner.arg) = "run"
          /\ ~toolInstalled
          /\ runner' = [runner EXCEPT !.pc = "exited", !.status = 1]
    /\ UNCHANGED notRunner

\* the dependencies are there: the tests to run are determined
RunnerSelects ==
    /\ runner.pc = "start"
    /\ Parsed(runner.version, runner.arg) = "run"
    /\ toolInstalled
    /\ runner' = [runner EXCEPT !.pc = "tests", !.at = 1,
                                !.RUN = Selected(runner.version, runner.arg)]
    /\ UNCHANGED notRunner

\* the block of the test the runner is at
AtTest ==
    /\ runner.pc = "tests"
    /\ runner.at <= Known(runner.version)

\* if [ "$RUN_X" = true ] is false: the block is skipped
TestSkipped ==
    /\ AtTest
    /\ Environments[runner.at] \notin runner.RUN
    /\ runner' = [runner EXCEPT !.at = @ + 1]
    /\ UNCHANGED notRunner

\* [ -f script ] is false: "not found", X_EXIT_CODE=1
TestMissing ==
    /\ AtTest
    /\ Environments[runner.at] \in runner.RUN
    /\ runner.test = "none"
    /\ runner' = [runner EXCEPT !.EXIT_CODE[runner.at] = 1,
                                !.notFound = @ \cup {Environments[runner.at]},
                                !.at = @ + 1]
    /\ UNCHANGED notRunner

\* ./script 2>&1 | tee log: the script runs in the foreground
TestLaunched ==
    /\ AtTest
    /\ Environments[runner.at] \in runner.RUN
    /\ runner.test = "none"
    /\ runner' = [runner EXCEPT !.test = "launched",
                                !.ran = Append(@, Environments[runner.at])]
    /\ UNCHANGED notRunner

\* the script starts its server (bun run index.ts & / docker run -d -p 3000:3000)
TestServerStarted ==
    /\ AtTest
    /\ runner.test = "launched"
    /\ runner' = [runner EXCEPT !.test = "serving", !.servers = @ + 1]
    /\ UNCHANGED notRunner

\* the exit status of a script: one that never started its server failed
ExitCodes(test) == IF test = "serving" THEN {0, 1} ELSE {1}

\* variant of TestExited: the script's status is the pipeline's, and a
\* non-zero status ends the runner under set -e
TestExitedErrexit ==
    /\ AtTest
    /\ runner.test \in {"launched", "serving"}
    /\ \E code \in ExitCodes(runner.test) :
         runner' =
           IF code # 0
           THEN [runner EXCEPT !.test = "none", !.servers = 0, !.pc = "exited", !.status = code]
           ELSE [runner EXCEPT !.test = "none", !.servers = 0,
                               !.EXIT_CODE[runner.at] = code, !.at = @ + 1]
    /\ UNCHANGED notRunner

\* variant of TestExited: the script leaves its server running
TestExitedServerLeft ==
    /\ AtTest
    /\ runner.test \in {"launched", "serving"}
    /\ \E code \in ExitCodes(runner.test) :
         runner' = [runner EXCEPT !.test = "none",
                                  !.EXIT_CODE[runner.at] = code, !.at = @ + 1]
    /\ UNCHANGED notRunner

\* the script exits: its EXIT trap has stopped the server it started, the
\* pipeline ends with tee's status, X_EXIT_CODE=${PIPESTATUS[0]}, and the
\* metrics of the log are printed
TestExited ==
    /\ AtTest
    /\ runner.test \in {"launched", "serving"}
    /\ \E code \in ExitCodes(runner.test) :
         runner' = [runner EXCEPT !.test = "none",
                                  !.servers = IF runner.test = "serving" THEN @ - 1 ELSE @,
                                  !.EXIT_CODE[runner.at] = code, !.at = @ + 1]
    /\ UNCHANGED notRunner

\* the indices of the selected environments, and of those that exited 0
Counted(r) == {i \in 1..Known(r.version) : Environments[i] \in r.RUN}
Succeeded(r) == {i \in Counted(r) : r.EXIT_CODE[i] = 0}

\* the summary of the two-way version: no counters, a verdict per case
VerdictOfTwo(r) ==
    IF r.RUN = {"local", "docker"}
    THEN IF r.EXIT_CODE[1] = 0 /\ r.EXIT_CODE[2] = 0 THEN "Both tests completed successfully"
         ELSE IF r.EXIT_CODE[1] = 0 THEN "Local test passed, Docker test failed"
         ELSE IF r.EXIT_CODE[2] = 0 THEN "Docker test passed, Local test failed"
         ELSE "Both tests failed"
    ELSE IF r.RUN = {"local"}
         THEN IF r.EXIT_CODE[1] = 0 THEN "Local test completed successfully"
              ELSE "Local test failed"
         ELSE IF r.EXIT_CODE[2] = 0 THEN "Docker test completed successfully"
              ELSE "Docker test failed"

\* the summary: TOTAL_TESTS and SUCCESSFUL_TESTS are counted over the RUN_X
\* flags, and the verdict is printed; the runner then ends with status 0
RunnerSummary ==
    /\ runner.pc = "tests"
    /\ runner.at = Known(runner.version) + 1
    /\ runner' =
         IF runner.version = "two"
         THEN [runner EXCEPT !.verdict = VerdictOfTwo(runner), !.pc = "exited", !.status = 0]
         ELSE [runner EXCEPT
                 !.TOTAL_TESTS = Cardinality(Counted(runner)),
                 !.SUCCESSFUL_TESTS = Cardinality(Succeeded(runner)),
                 !.verdict =
                    IF Cardinality(Succeeded(runner)) = Cardinality(Counted(runner))
                       /\ Cardinality(Counted(runner)) > 0
                    THEN "All tests completed successfully"
                    ELSE IF runner.version = "seven" THEN "Partial success" ELSE "",
                 !.pc = "exited", !.status = 0]
    /\ UNCHANGED notRunner

\* a runner is started with at most one argument; nothing else runs
RunnerInit ==
    /\ script = "local"
    /\ JQ_AVAILABLE \in {"", "true"}
    /\ toolInstalled \in BOOLEAN
    /\ pc = "deps"
    /\ exitStatus = 0
    /\ trapSet = FALSE
    /\ waiting = FALSE
    /\ RETRY_COUNT = 0
    /\ loopI = 0
    /\ blob = BlobInit
    /\ sh = ShInit
    /\ LEAK_TYPES = << >>
    /\ GROWTH_TYPES = << >>
    /\ report = {}
    /\ phaseLog = << >>
    /\ serverState = "off"
    /\ jscAvailable = TRUE
    /\ inflight = << >>
    /\ response = NoResponse
    /\ served = [health |-> 0, memory |-> 0]
    /\ handlers = << >>
    /\ files = 0
    /\ replies = << >>
    /\ objectTypeCounts = << >>
    /\ topObjectTypes = << >>
    /\ runtime = NoRuntime
    /\ memory = NoMemory
    /\ proc = ProcListening
    /\ marks = NoMarks
    /\ \E version \in Versions, arg \in Arguments :
         runner = [RunnerOff EXCEPT !.version = version, !.arg = arg, !.pc = "start"]

RunnerNext ==
    \/ RunnerRefuses
    \/ RunnerSelects
    \/ TestSkipped
    \/ TestMissing
    \/ TestLaunched
    \/ TestServerStarted
    \/ TestExited
    \/ RunnerSummary

RunnerSpec == RunnerInit /\ [][RunnerNext]_vars

-----------------------------------------------------------------------------
(* Failures: of the setup, and of the server while a script runs *)

\* `bun install`, `docker build` or `docker run -d` fails: under `set -e` the
\* script ends before a server runs and before the trap is set
SetupFails ==
    /\ pc = "setup"
    /\ Exit(1)
    /\ UNCHANGED << restVars, serverVars, script, JQ_AVAILABLE, toolInstalled, trapSet, waiting, RETRY_COUNT,
                    loopI, shellVars, phaseLog, jscAvailable, inflight, response, served >>

\* the server process or container dies: open connections are closed
ServerCrash ==
    /\ pc # "exited"
    /\ serverState \in {"starting", "up"}
    /\ serverState' = "dead"
    /\ inflight' = << >>
    /\ response' = IF waiting /\ response = NoResponse THEN ConnLost ELSE response
    /\ UNCHANGED << restVars, serverVars, script, JQ_AVAILABLE, toolInstalled, pc, exitStatus, trapSet, waiting,
                    RETRY_COUNT, loopI, shellVars, phaseLog, jscAvailable, served >>

\* X=$(get_...) while curl fails.  With jq the status of `curl | jq` is the
\* status of jq, which prints nothing for no input and returns 0: X is empty
\* and the script goes on.  Without jq the status is curl's: `set -e` ends it.
ProbeRefused ==
    /\ pc \in ProbeSteps
    /\ ProbeWanted(pc)
    /\ CurlFails
    /\ waiting' = FALSE
    /\ response' = NoResponse
    /\ phaseLog' = Note(PhaseOf(pc))
    /\ IF Jq
       THEN /\ blob' = [blob EXCEPT ![BlobOf(pc)] = JsonEmpty]
            /\ pc' = After(pc)
            /\ UNCHANGED << exitStatus, serverState >>
       ELSE /\ Exit(CurlStatus)
            /\ UNCHANGED blob
    /\ UNCHANGED << restVars, serverVars, script, JQ_AVAILABLE, toolInstalled, trapSet, RETRY_COUNT,
                    loopI, sh, LEAK_TYPES, GROWTH_TYPES, report, jscAvailable, inflight, served >>

\* the curl of the loop body fails: `set -e` ends the script with its status
LoadRefused ==
    /\ pc = "load"
    /\ CurlFails
    /\ ~waiting => loopI < LoadRequests
    /\ waiting' = FALSE
    /\ response' = NoResponse
    /\ phaseLog' = Note("load")
    /\ Exit(CurlStatus)
    /\ UNCHANGED << restVars, serverVars, script, JQ_AVAILABLE, toolInstalled, trapSet, RETRY_COUNT,
                    loopI, shellVars, jscAvailable, inflight, served >>

-----------------------------------------------------------------------------
(* A whole run of a driver against the README's scenario *)

\* what the runtime may report at each probe of a run
RunHeaps ==
    CASE PhaseOf(pc) = "baseline" -> {ReadmeBefore}
      [] PhaseOf(pc) = "postload" -> {ReadmeBefore, ReadmeAfter}
      [] OTHER -> {ReadmeAfter, Grown(ReadmeAfter, [Headers |-> HttpGrowth + 1])}

Next ==
    \/ DepsCheck
    \/ StartServer
    \/ ServerReady
    \/ ReadyRefused
    \/ ReadyIssue
    \/ ReadyOk
    \/ ProbeIssue
    \/ ProbeSkip
    \/ ProbeCapture
    \/ LoadIssue
    \/ LoadComplete
    \/ LoadDone
    \/ RunBlock
    \/ Wait
    \/ Finish
    \/ HandleHealth
    \/ HandleMemory(RunHeaps)

Spec == Init /\ [][Next]_vars

\* the shell runs its next command, a curl that cannot connect fails, and
\* the server answers the /health request it has received
ReadySpec ==
    /\ Init
    /\ [][Next]_vars
    /\ WF_vars(ReadyRefused)
    /\ WF_vars(ReadyIssue)
    /\ WF_vars(ReadyOk)
    /\ WF_vars(HandleHealth)

\* the same scripts in an environment where the setup and the server can fail
FailNext ==
    \/ Next
    \/ SetupFails
    \/ ServerCrash
    \/ ProbeRefused
    \/ LoadRefused

FailSpec == Init /\ [][FailNext]_vars

-----------------------------------------------------------------------------
(* The classification of Delta(baseline, post-load), for many post-load censuses *)

\* the probes of the baseline phase of the running script
BaselineProbes == {p \in {"baseline_stats", "baseline_usage", "baseline_all"} :
                     \E n \in 1..Len(FlowNow) : FlowNow[n] = p}

\* the shell state when the load loop has ended, the baseline being ReadmeBefore
BaselineBlobs ==
    [k \in BlobNames |->
        IF \E p \in BaselineProbes : BlobOf(p) = k
        THEN Filter(CHOOSE p \in BaselineProbes : BlobOf(p) = k, TRUE,
                    MemoryResponse(jscAvailable, ReadmeBefore))
        ELSE JsonUnset]

BaselineDriver ==
    LET d1 == BaselineExtract(script, BaselineBlobs, DriverState(ShInit, << >>, << >>, {}))
    IN  IF \E n \in 1..Len(FlowNow) : FlowNow[n] = "baseline_all_extract"
        THEN BaselineAllExtract(script, BaselineBlobs, d1)
        ELSE d1

\* the driver has finished the load loop of a run with jq installed
AfterLoad ==
    /\ script \in Scripts
    /\ JQ_AVAILABLE = "true"
    /\ toolInstalled = TRUE
    /\ pc = After("load")
    /\ exitStatus = 0
    /\ trapSet = TRUE
    /\ waiting = FALSE
    /\ RETRY_COUNT = 0
    /\ loopI = LoadRequests
    /\ jscAvailable \in (IF script = "node" THEN {FALSE} ELSE BOOLEAN)
    /\ blob = BaselineBlobs
    /\ sh = BaselineDriver.sh
    /\ LEAK_TYPES = BaselineDriver.types
    /\ GROWTH_TYPES = BaselineDriver.gtypes
    /\ report = BaselineDriver.rep
    /\ phaseLog = << "ready", "baseline", "load" >>
    /\ serverState = "up"
    /\ inflight = << >>
    /\ response = NoResponse
    /\ served = [health |-> LoadRequests + 2, memory |-> Cardinality(BaselineProbes)]
    /\ ServerIdle

\* post-load censuses: every tracked count at, above and below its thresholds
HttpLeaks ==
    { Grown(ReadmeBefore, [Headers |-> a, NodeHTTPResponse |-> b, NodeHTTPServerSocket |-> c]) :
        a \in DiffValues(HttpModerate, HttpCritical),
        b \in DiffValues(HttpModerate, HttpCritical),
        c \in DiffValues(SocketsModerate, SocketsCritical) }
    \cup { ReadmeBefore,
           Grown(ReadmeBefore, [Headers |-> 0 - Shrink, NodeHTTPResponse |-> 0 - Shrink]) }

GeneralLeaks ==
    { ReadmeBefore } \cup
    { Grown(ReadmeBefore, [Promise |-> a, Function |-> b, Array |-> c]) :
        a \in DiffValues(PromisesModerate, PromisesCritical),
        b \in DiffValues(FunctionsModerate, FunctionsCritical),
        c \in DiffValues(ArraysModerate, ArraysCritical) }

UsageLeaks ==
    { Grown(ReadmeBefore, [rss |-> a, heapUsed |-> b]) :
        a \in DiffValues(NodeRssMinor, NodeRssModerate) \cup {0, 0 - Shrink},
        b \in DiffValues(NodeHeapMinor, NodeHeapModerate) \cup {0, 0 - Shrink} }

\* test-docker-node.sh classifies memory usage, the Bun scripts object counts
SeverityHeaps ==
    CASE pc = "post_usage" -> IF script = "node" THEN UsageLeaks ELSE {ReadmeBefore}
      [] pc = "post_stats" -> IF script = "node" THEN {ReadmeBefore} ELSE HttpLeaks
      [] OTHER -> GeneralLeaks

SeverityNext ==
    \/ ProbeIssue
    \/ ProbeSkip
    \/ ProbeCapture
    \/ RunBlock
    \/ HandleMemory(SeverityHeaps)

\* the classification is complete when the driver reaches its sleep
SeveritySpec == AfterLoad /\ [][SeverityNext]_vars

-----------------------------------------------------------------------------
(* The analysis of Delta(post-load, delayed), for many delayed censuses *)

HttpGrowths ==
    { Grown(ReadmeAfter, [Headers |-> a, NodeHTTPResponse |-> b, NodeHTTPServerSocket |-> c]) :
        a \in GrowthValues(HttpGrowth), b \in GrowthValues(HttpGrowth),
        c \in GrowthValues(SocketsGrowth) }
    \cup { Grown(ReadmeAfter, [Headers |-> 0 - Shrink, NodeHTTPResponse |-> 0 - Shrink]) }

GeneralGrowths ==
    { Grown(ReadmeAfter, [Promise |-> a, Array |-> b, Function |-> c]) :
        a \in GrowthValues(PromisesGrowth), b \in GrowthValues(ArraysGrowth),
        c \in GrowthValues(FunctionsGrowth) }

UsageGrowths ==
    { Grown(ReadmeAfter, [rss |-> a, heapUsed |-> b]) :
        a \in GrowthValues(NodeRssContinued), b \in GrowthValues(NodeHeapContinued) }

GrowthHeaps ==
    CASE PhaseOf(pc) = "postload" -> {ReadmeAfter}
      [] pc = "delayed_usage" -> IF script = "node" THEN UsageGrowths ELSE {ReadmeAfter}
      [] pc = "delayed_stats" -> IF script = "node" THEN {ReadmeAfter} ELSE HttpGrowths
      [] OTHER -> GeneralGrowths

GrowthNext ==
    \/ ProbeIssue
    \/ ProbeSkip
    \/ ProbeCapture
    \/ RunBlock
    \/ Wait
    \/ Finish
    \/ HandleMemory(GrowthHeaps)

GrowthSpec == AfterLoad /\ [][GrowthNext]_vars

\* in a whole run whose first readiness check succeeds, the state at the end of
\* the load loop is a state AfterLoad starts from
AfterLoadIsReached ==
    (pc = After("load") /\ ~waiting /\ Jq /\ RETRY_COUNT = 0)
        => /\ blob = BaselineBlobs
           /\ sh = BaselineDriver.sh
           /\ LEAK_TYPES = BaselineDriver.types
           /\ GROWTH_TYPES = BaselineDriver.gtypes
           /\ report = BaselineDriver.rep
           /\ phaseLog = << "ready", "baseline", "load" >>
           /\ served = [health |-> LoadRequests + 2, memory |-> Cardinality(BaselineProbes)]
           /\ loopI = LoadRequests /\ inflight = << >> /\ response = NoResponse

-----------------------------------------------------------------------------
(* Properties of the classification of Delta(baseline, post-load) *)

Range(seq) == {seq[n] : n \in 1..Len(seq)}

\* Delta(baseline, post-load) of the object counts the Bun drivers received
HttpDelta(k) == blob["POST_LOAD"].f[k] - blob["BASELINE"].f[k]
GeneralDelta(k) == blob["POST_ALL"].f[k] - blob["BASELINE_ALL"].f[k]
Delta == [k \in CountKeys |-> IF k \in GeneralKeys THEN GeneralDelta(k) ELSE HttpDelta(k)]
GeneralAvailable == Present(blob["BASELINE_ALL"]) /\ Present(blob["POST_ALL"])

Severity == sh["LEAK_SEVERITY"].s

\* a Bun driver has just run its check of the HTTP objects
HttpChecked == script \in BunScripts /\ pc = After("check_http")
\* a Bun driver has run all its checks
AllChecked == script \in BunScripts /\ pc \in {"report_leak", "wait"}

\* the classifications, family by family, with the thresholds written out
HttpCriticalDelta ==
    HttpDelta("Headers") > 500 \/ HttpDelta("NodeHTTPResponse") > 500
        \/ HttpDelta("NodeHTTPServerSocket") > 100
HttpModerateDelta ==
    HttpDelta("Headers") > 100 \/ HttpDelta("NodeHTTPResponse") > 100
        \/ HttpDelta("NodeHTTPServerSocket") > 50
GeneralCriticalDelta ==
    GeneralDelta("Promise") > 5000 \/ GeneralDelta("Function") > 10000
        \/ GeneralDelta("Array") > 20000
GeneralModerateDelta ==
    GeneralDelta("Promise") > 1000 \/ GeneralDelta("Function") > 5000
        \/ GeneralDelta("Array") > 10000

\* C1, as amended: in the Bun drivers the HTTP-object family is critical iff the
\* Headers or NodeHTTPResponse difference is greater than 500 or the
\* NodeHTTPServerSocket difference is greater than 100; moderate iff it is not
\* critical and the Headers or NodeHTTPResponse difference is greater than 100
\* or the NodeHTTPServerSocket difference is greater than 50; none otherwise.
C1_HttpFamily ==
    HttpChecked =>
        /\ (Severity = "critical") <=> HttpCriticalDelta
        /\ (Severity = "moderate") <=> (~HttpCriticalDelta /\ HttpModerateDelta)
        /\ (Severity = "none") <=> (~HttpCriticalDelta /\ ~HttpModerateDelta)

\* C1 as stated: all three counts are compared with 500 and with 100
C1_AsStated ==
    HttpChecked =>
        LET any500 == \E k \in {"Headers", "NodeHTTPResponse", "NodeHTTPServerSocket"} :
                         HttpDelta(k) > 500
            any100 == \E k \in {"Headers", "NodeHTTPResponse", "NodeHTTPServerSocket"} :
                         HttpDelta(k) > 100
        IN /\ (Severity = "critical") <=> any500
           /\ (Severity = "moderate") <=> (~any500 /\ any100)
           /\ (Severity = "none") <=> (~any500 /\ ~any100)

\* a socket difference between 100 and 500 alone makes the family critical
C1_Witness ==
    /\ HttpChecked
    /\ HttpDelta("Headers") <= 100 /\ HttpDelta("NodeHTTPResponse") <= 100
    /\ HttpDelta("NodeHTTPServerSocket") > 100 /\ HttpDelta("NodeHTTPServerSocket") <= 500
    /\ Severity = "critical"

\* C2: when the general object counts are available, the general-object family
\* is critical iff Promise diff > 5000 or Function diff > 10000 or Array diff >
\* 20000, moderate iff not critical and Promise diff > 1000 or Function diff >
\* 5000 or Array diff > 10000, none otherwise. The family's class is what is
\* reported when the HTTP family is none, and it is never reported lower.
C2_GeneralFamily ==
    (AllChecked /\ script \in ComprehensiveScripts /\ GeneralAvailable) =>
        /\ ("general objects" \in Range(LEAK_TYPES))
              <=> (GeneralCriticalDelta \/ GeneralModerateDelta)
        /\ GeneralCriticalDelta => Severity = "critical"
        /\ (~GeneralCriticalDelta /\ GeneralModerateDelta) => Severity # "none"
        /\ "HTTP objects" \notin Range(LEAK_TYPES) =>
              /\ (Severity = "critical") <=> GeneralCriticalDelta
              /\ (Severity = "moderate") <=> (~GeneralCriticalDelta /\ GeneralModerateDelta)
              /\ (Severity = "none") <=> (~GeneralCriticalDelta /\ ~GeneralModerateDelta)

\* the Function difference alone, just above 10000, makes the family critical
C2_Witness ==
    /\ AllChecked /\ script \in ComprehensiveScripts /\ GeneralAvailable
    /\ "HTTP objects" \notin Range(LEAK_TYPES)
    /\ GeneralDelta("Function") > 10000
    /\ GeneralDelta("Promise") <= 1000 /\ GeneralDelta("Array") <= 10000
    /\ Severity = "critical"

\* C3: the reported LEAK_SEVERITY is the maximum, under none < moderate <
\* critical, of the classes of the two families; a critical HTTP family is not
\* lowered by a moderate or none general family.
C3_OverallIsMaximum ==
    AllChecked =>
        LET http == IF HttpCriticalDelta THEN 3 ELSE IF HttpModerateDelta THEN 2 ELSE 0
            general == IF GeneralCriticalDelta THEN 3 ELSE IF GeneralModerateDelta THEN 2 ELSE 0
        IN Rank(Severity) = IF http >= general THEN http ELSE general

\* HTTP family critical, general family moderate: critical is reported
C3_Witness ==
    /\ AllChecked /\ GeneralAvailable
    /\ HttpCriticalDelta
    /\ ~GeneralCriticalDelta /\ GeneralModerateDelta
    /\ Severity = "critical"

\* amounts by which one difference is raised
Raises == {1, 50, 400, 4000, 5000, 10000}

\* C4: severity is monotonic in the deltas: the severity computed for a vector
\* that differs from the driver's delta only in one tracked difference being
\* larger is greater than or equal to the severity the driver reports.
C4_Monotonic ==
    (AllChecked /\ script \in ComprehensiveScripts) =>
        /\ Severity = LeakSeverity(Delta, GeneralAvailable)
        /\ \A k \in {"Headers", "NodeHTTPResponse", "NodeHTTPServerSocket"} \cup GeneralKeys :
             \A e \in Raises :
               Rank(LeakSeverity([Delta EXCEPT ![k] = @ + e], GeneralAvailable))
                   >= Rank(Severity)

\* a delta that is none, and moderate and critical once Headers is raised
C4_Witness ==
    /\ AllChecked /\ script \in ComprehensiveScripts /\ GeneralAvailable
    /\ Severity = "none"
    /\ LeakSeverity([Delta EXCEPT !["Headers"] = @ + 1], TRUE) = "moderate"
    /\ LeakSeverity([Delta EXCEPT !["Headers"] = @ + 5000], TRUE) = "critical"

\* C7 as stated: the severity a driver reports is one of none, moderate, critical
C7_ThreeValues ==
    NonEmpty(sh["LEAK_SEVERITY"]) => Severity \in {"none", "moderate", "critical"}

\* test-docker-node.sh after an rss growth between 20 and 50 MB
C7_Witness ==
    /\ script = "node"
    /\ pc = After("node_severity")
    /\ Arith(sh["RSS_DIFF"]) > 20 /\ Arith(sh["RSS_DIFF"]) <= 50
    /\ Arith(sh["HEAP_USED_DIFF"]) <= 30
    /\ Severity = "minor"

-----------------------------------------------------------------------------
(* Properties of a whole run *)

InFlow(p) == \E n \in 1..Len(FlowNow) : FlowNow[n] = p
\* the run went to its end
Completed == pc = "exited" /\ exitStatus = 0 /\ toolInstalled
\* the step p of the running script is behind the driver
Past(p) == Completed \/ (InFlow(pc) /\ InFlow(p) /\ PosIn(FlowNow, pc) > PosIn(FlowNow, p))

\* the README's scenario: Headers 54 -> 1338, NodeHTTPResponse 50 -> 1334
Scenario ==
    /\ script \in BunScripts /\ Jq
    /\ Past("report_leak")
    /\ Present(blob["BASELINE"]) /\ Present(blob["POST_LOAD"])
    /\ blob["BASELINE"].f["Headers"] = 54 /\ blob["BASELINE"].f["NodeHTTPResponse"] = 50
    /\ blob["POST_LOAD"].f["Headers"] = 1338 /\ blob["POST_LOAD"].f["NodeHTTPResponse"] = 1334

\* a printed leak rate, in thousandths of an object per request
Thousandths(v) == IF v.tag = "dec2" THEN v.n * 10 ELSE v.n * 1000

\* C5, as amended: in the scenario the driver reports Delta = {+1284, +1284} and
\* severity critical, and the leak rate it prints is the delta divided by 1000
\* and truncated: 1.28 with bc installed, ~1 without.
C5_Scenario ==
    Scenario =>
        /\ sh["HEADERS_DIFF"] = Num(1284) /\ sh["RESPONSES_DIFF"] = Num(1284)
        /\ Severity = "critical"
        /\ "leak_rates" \in report
        /\ sh["HEADERS_LEAK_RATE"] \in {Dec2(128), Approx(1)}
        /\ sh["RESPONSES_LEAK_RATE"] = sh["HEADERS_LEAK_RATE"]

\* C5 as stated: the leak rate reported is 1.284 per request
C5_AsStated ==
    Scenario =>
        /\ sh["HEADERS_DIFF"] = Num(1284) /\ sh["RESPONSES_DIFF"] = Num(1284)
        /\ Severity = "critical"
        /\ Thousandths(sh["HEADERS_LEAK_RATE"]) = 1284
        /\ Thousandths(sh["RESPONSES_LEAK_RATE"]) = 1284

\* the scenario run to its end by the local driver, bc installed
C5_Witness ==
    /\ Scenario /\ Completed /\ script = "local"
    /\ sh["HEADERS_LEAK_RATE"] = Dec2(128)
    /\ "verdict_critical" \in report

\* the sections of a report that state a severity
SeveritySections ==
    {"verdict_critical", "verdict_moderate", "verdict_none", "severity_line",
     "summary_severity"}

\* C6 as stated: when the heap statistics are unavailable in the baseline and
\* the post-load probe, the report has no leak-rate section and no severity
\* section, and the script exits with status 0.
C6_AsStated ==
    (Completed /\ ~jscAvailable) =>
        /\ "leak_rates" \notin report
        /\ report \cap SeveritySections = {}
        /\ exitStatus = 0

\* a Bun driver with jq, heap null in both probes: leak rates of 0 and the
\* verdict that no leak was detected are printed
C6_Witness ==
    /\ Completed /\ ~jscAvailable /\ script = "local" /\ Jq
    /\ blob["BASELINE"] = JsonNull /\ blob["POST_LOAD"] = JsonNull
    /\ "leak_rates" \in report /\ "verdict_none" \in report
    /\ sh["HEADERS_LEAK_RATE"] \in {Dec2(0), Approx(0)}

\* C8: the load loop issues exactly 1000 requests to /health, one at a time: the
\* driver never has more than one request outstanding, every request of the
\* loop is answered before the next is issued, and after the loop 1000 have
\* been issued and answered.
C8_Sequential ==
    /\ Len(inflight) + (IF response # NoResponse THEN 1 ELSE 0) <= 1
    /\ (Len(inflight) + (IF response # NoResponse THEN 1 ELSE 0) = 1) <=> waiting
    /\ pc = "load" =>
         /\ loopI <= LoadRequests
         /\ served.health - loopI + Len(inflight) \in {1, 2}
         /\ \A n \in 1..Len(inflight) : inflight[n] = "/health"
    /\ Past("load") => (loopI = LoadRequests /\ served.health - LoadRequests \in {1, 2})

\* the last request of the loop is in flight, alone
C8_Witness ==
    /\ pc = "load" /\ loopI = LoadRequests /\ waiting
    /\ inflight = << "/health" >>
    /\ served.health >= LoadRequests

\* the driver is between the capture of the post-load snapshot and the first
\* probe of the delayed snapshot
Quiet ==
    /\ InFlow(pc)
    /\ \A p \in ProbeSteps :
         (InFlow(p) /\ PhaseOf(p) = "postload") => PosIn(FlowNow, pc) > PosIn(FlowNow, p)
    /\ \A p \in ProbeSteps :
         (InFlow(p) /\ PhaseOf(p) = "delayed") => PosIn(FlowNow, pc) < PosIn(FlowNow, p)

\* C9: in a completed run the phases occur in the order baseline, load,
\* post-load, wait, delayed, report; and between the capture of the post-load
\* snapshot and that of the delayed snapshot no request is sent to the server.
C9_PhaseOrder ==
    [][ /\ Completed' =>
             phaseLog' = << "ready", "baseline", "load", "postload", "wait", "delayed",
                            "report" >>
        /\ Quiet => (inflight' = inflight /\ served' = served /\ response' = response)
      ]_vars

\* a completed run of the local driver with its growth analysis printed
C9_Witness ==
    /\ Completed /\ script = "local" /\ Jq
    /\ Len(phaseLog) = 7
    /\ served.memory = 8
    /\ "growth_stabilized" \in report

-----------------------------------------------------------------------------
(* Properties of the analysis of Delta(post-load, delayed) *)

HttpGrowthDelta(k) == blob["DELAYED"].f[k] - blob["POST_LOAD"].f[k]
GeneralGrowthDelta(k) == blob["DELAYED_ALL"].f[k] - blob["POST_ALL"].f[k]
GeneralGrowthAvailable == Present(blob["POST_ALL"]) /\ Present(blob["DELAYED_ALL"])

\* a comprehensive driver has run its analysis of continued growth
GrowthAnalysed == script \in ComprehensiveScripts /\ Jq /\ Past("growth")

GeneralGrowthFlag ==
    GeneralGrowthAvailable
        /\ (GeneralGrowthDelta("Promise") > 100 \/ GeneralGrowthDelta("Array") > 500
              \/ GeneralGrowthDelta("Function") > 1000)

\* C10, as amended: continued growth is flagged iff in Delta(post-load, delayed)
\* the Headers or NodeHTTPResponse difference is greater than 10 or the
\* NodeHTTPServerSocket difference is greater than 5, or, when the general
\* object counts are available, Promise diff > 100 or Array diff > 500 or
\* Function diff > 1000; otherwise growth is reported as stabilized.
C10_ContinuedGrowth ==
    GrowthAnalysed =>
        LET flag == \/ HttpGrowthDelta("Headers") > 10
                    \/ HttpGrowthDelta("NodeHTTPResponse") > 10
                    \/ HttpGrowthDelta("NodeHTTPServerSocket") > 5
                    \/ GeneralGrowthFlag
        IN /\ (sh["CONTINUED_GROWTH"] = Str("true")) <=> flag
           /\ ("growth_continues" \in report) <=> flag
           /\ ("growth_stabilized" \in report) <=> ~flag

\* C10 as stated: every HTTP-object difference is compared with 10
C10_AsStated ==
    GrowthAnalysed =>
        LET flag == \/ \E k \in {"Headers", "NodeHTTPResponse", "NodeHTTPServerSocket"} :
                          HttpGrowthDelta(k) > 10
                    \/ GeneralGrowthFlag
        IN /\ (sh["CONTINUED_GROWTH"] = Str("true")) <=> flag
           /\ ("growth_continues" \in report) <=> flag
           /\ ("growth_stabilized" \in report) <=> ~flag

\* six more sockets after the wait, nothing else grown: growth is flagged
C10_Witness ==
    /\ GrowthAnalysed /\ GeneralGrowthAvailable /\ ~GeneralGrowthFlag
    /\ HttpGrowthDelta("Headers") <= 10 /\ HttpGrowthDelta("NodeHTTPResponse") <= 10
    /\ HttpGrowthDelta("NodeHTTPServerSocket") > 5
    /\ HttpGrowthDelta("NodeHTTPServerSocket") <= 10
    /\ sh["CONTINUED_GROWTH"] = Str("true")
    /\ GROWTH_TYPES = << "HTTP objects" >>

-----------------------------------------------------------------------------
(* Both deltas and both classifications *)

\* the lines that state a leak severity, and those that state whether the
\* objects went on growing during the wait
VerdictSections ==
    {"verdict_critical", "verdict_moderate", "verdict_minor", "verdict_none", "severity_line"}
ContinuedSections == {"growth_continues", "growth_stabilized"}

\* C11 as stated: every driver that runs to completion with jq reports a
\* leak-severity classification of Delta(baseline, post-load) and a
\* continued-growth classification of Delta(post-load, delayed).
C11_AsStated ==
    (Completed /\ Jq) =>
        /\ report \cap VerdictSections # {}
        /\ report \cap ContinuedSections # {}

\* test-docker-alpine-bun.sh ran to its end with jq: the delayed snapshot was
\* taken and a severity was reported, and nothing was said about growth
C11_Witness ==
    /\ Completed /\ Jq
    /\ script = "alpine-bun"
    /\ Present(blob["DELAYED"])
    /\ report \cap VerdictSections # {}
    /\ report \cap ContinuedSections = {}

\* the other drivers do report both classifications
C11_OtherDrivers ==
    (Completed /\ Jq /\ script # "alpine-bun") =>
        /\ report \cap VerdictSections # {}
        /\ report \cap ContinuedSections # {}

-----------------------------------------------------------------------------
(* All or nothing *)

\* a probe of the run failed: its variable holds the empty output
ProbeFailed == \E b \in DOMAIN blob : blob[b].tag = "empty"

\* C12 as stated: when the summary is emitted all 1000 load requests have
\* succeeded and the wait has elapsed, and a run in which a step failed stops
\* at that step with a non-zero exit status and emits no summary.
C12_AsStated ==
    /\ "summary" \in report =>
          loopI = LoadRequests /\ (\E n \in 1..Len(phaseLog) : phaseLog[n] = "wait")
    /\ ProbeFailed => pc = "exited" /\ exitStatus # 0 /\ "summary" \notin report

\* the server died during the wait of a run with jq: the delayed probe failed,
\* and the script printed its summary and ended with status 0
C12_Witness ==
    /\ Completed /\ Jq
    /\ serverState = "stopped"
    /\ loopI = LoadRequests
    /\ blob["DELAYED"].tag = "empty"
    /\ Present(blob["POST_LOAD"])
    /\ "summary" \in report

\* the half of C12 that holds: a summary is only printed after 1000 answered
\* load requests and the wait
C12_SummaryAfterFullLoad ==
    "summary" \in report =>
        /\ loopI = LoadRequests
        /\ served.health >= LoadRequests + 1
        /\ \E n \in 1..Len(phaseLog) : phaseLog[n] = "wait"

-----------------------------------------------------------------------------
(* Cleanup on every way out *)

\* C13: however a script ends (normal completion, readiness failure, a
\* failing step under `set -e`), once the server process or container was
\* started the cleanup has run: no spawned server is left running, and a run
\* that ends before the start never had one.
C13_CleanupOnExit ==
    pc = "exited" =>
        /\ serverState \in {"off", "stopped"}
        /\ trapSet <=> serverState = "stopped"

\* a load request failed under `set -e` after the server had answered 1000
\* requests or fewer: the script ended with curl's status, the server is stopped
C13_Witness ==
    /\ pc = "exited"
    /\ exitStatus \in {7, 52}
    /\ loopI > 0
    /\ served.health > 1
    /\ serverState = "stopped"

-----------------------------------------------------------------------------
(* Dependencies *)

\* the phases of a whole measurement, in the order of the script
AllPhases == << "ready", "baseline", "load", "postload", "wait", "delayed", "report" >>

\* C14: a script whose required tool (bun or docker) is missing ends with
\* status 1 before any server is started and before any request is sent; a
\* missing jq alone never ends a script: it only sets JQ_AVAILABLE=false, the
\* only abort left is the readiness failure, and the run that passes it makes
\* the baseline probe, the 1000 requests, the wait and the delayed probe and
\* ends with status 0.
C14_Dependencies ==
    /\ (pc = "exited" /\ ~toolInstalled) =>
          /\ exitStatus = 1
          /\ serverState = "off" /\ ~trapSet
          /\ served = [health |-> 0, memory |-> 0]
          /\ inflight = << >> /\ phaseLog = << >>
    /\ (pc # "deps" /\ toolInstalled) => JQ_AVAILABLE \in {"true", "false"}
    /\ (pc = "exited" /\ toolInstalled /\ exitStatus # 0) =>
          trapSet /\ RETRY_COUNT = MAX_RETRIES /\ served.memory = 0
    /\ (pc = "exited" /\ toolInstalled /\ JQ_AVAILABLE = "false" /\ served.memory > 0) =>
          /\ exitStatus = 0
          /\ phaseLog = AllPhases
          /\ loopI = LoadRequests
          /\ served.health >= LoadRequests + 1

\* a run without jq that went through the whole measurement and ended with 0
C14_Witness ==
    /\ pc = "exited" /\ exitStatus = 0
    /\ toolInstalled /\ JQ_AVAILABLE = "false"
    /\ phaseLog = AllPhases
    /\ loopI = LoadRequests
    /\ served.memory >= 3

-----------------------------------------------------------------------------
(* The endpoints *)

\* the replies of /memory sent so far
Sent == {replies[n] : n \in 1..Len(replies)}

\* C15: every /health request is answered 200 with the body {status: "ok"},
\* whatever /health and /memory requests were handled before it or are
\* suspended while it is handled (failed ones and snapshot-writing ones
\* included), and handling it touches nothing the /memory handlers use.
C15_HealthAlwaysOk ==
    [][served'.health = served.health + 1 =>
          /\ response'.status = 200
          /\ response'.body = "{status:ok}"
          /\ serverVars' = serverVars]_vars

\* /health was answered while a /memory handler was suspended at an await and
\* after another /memory request had been answered 500 or had written a file
C15_Witness ==
    /\ served.health > 0 /\ response = HealthResponse
    /\ handlers # << >>
    /\ \E r \in Sent : r.status = 500 \/ r.wrote

\* C16: a /memory request whose basic metrics (or a later top-level step)
\* throw is answered 500 with a body of exactly error, message and timestamp,
\* only such requests are, and the server goes on answering.
C16_ErrorReply ==
    /\ serverState = "up"
    /\ \A r \in Sent :
          /\ r.status \in {200, 500}
          /\ r.status = 500 <=> r.outcome \in {"usage_throws", "malformed"}
          /\ r.status = 500 => r.fields = ErrorFields /\ ~r.memory
          /\ r.status = 200 => r.fields = ResponseFields /\ r.memory

\* a /memory request was answered 200 after another had been answered 500
\* because process.memoryUsage() threw
C16_Witness ==
    \E n, m \in 1..Len(replies) :
        /\ n < m
        /\ replies[n].status = 500 /\ replies[n].outcome = "usage_throws"
        /\ replies[n].fields = ErrorFields
        /\ replies[m].status = 200

\* the heap-statistics section failed: no module, a throwing call, or a
\* result that is not the statistics
HeapSectionFailed(r) == r.outcome \in {"absent", "throws", "null_result", "malformed"}

\* C17 as stated: whenever the heap-statistics facility is absent, throws, or
\* gives a result that cannot be processed, the response is 200 with
\* heap = null and the memory section present.
C17_AsStated ==
    \A r \in Sent : HeapSectionFailed(r) => r.status = 200 /\ r.heap = "null" /\ r.memory

\* heapStats() returned an object without objectTypeCounts and the request
\* was answered 500 with the error body
C17_Witness ==
    \E r \in Sent :
        /\ r.outcome = "malformed"
        /\ r.status = 500 /\ r.fields = ErrorFields /\ ~r.memory

\* the failures the inner try/catch does absorb
C17_CaughtFailures ==
    \A r \in Sent :
        r.outcome \in {"absent", "throws", "null_result"} =>
            r.status = 200 /\ r.heap = "null" /\ r.memory

\* the request's snapshot parameter is exactly the string "true"
SnapshotIsTrue(q) == q = "/memory?snapshot=true"

C19_OnlyTheSnapshotFile ==
    /\ \A r \in Sent :
          /\ r.wrote => SnapshotIsTrue(r.query)
          /\ (~SnapshotIsTrue(r.query) /\ r.status = 200) => r.snapshot = "null"
          /\ ~SnapshotIsTrue(r.query) => r.snapshotInfo = "null"
    /\ files = Cardinality({n \in 1..Len(replies) : replies[n].wrote})
    /\ \A i \in 1..Len(handlers) : handlers[i].stage = "import_v8" => SnapshotIsTrue(handlers[i].query)
    /\ (\A r \in Sent : ~SnapshotIsTrue(r.query)) /\ handlers = << >> => files = 0

\* /memory?snapshot=TRUE and /health were answered: no file, snapshot = null
C19_Witness ==
    /\ served.health > 0
    /\ handlers = << >> /\ inflight = << >>
    /\ files = 0
    /\ \E r \in Sent :
          r.query = "/memory?snapshot=TRUE" /\ r.status = 200 /\ r.snapshot = "null"

-----------------------------------------------------------------------------
(* The ten largest object types *)

\* position of the entry of a type in a sequence of entries
PlaceOf(entries, t) == CHOOSE i \in 1..Len(entries) : entries[i].type = t

\* C20: topObjectTypes has at most 10 entries (all of them when the mapping
\* has no more), they are entries of the mapping with the largest counts, in
\* descending order of count, and entries of equal count keep the order the
\* mapping lists them in.
C20_TopObjectTypes ==
    pc = "top_output" =>
        LET in == objectTypeCounts
            top == topObjectTypes
            kept == {top[i].type : i \in 1..Len(top)}
        IN /\ Len(top) <= TopLimit
           /\ Len(top) = IF Len(in) < TopLimit THEN Len(in) ELSE TopLimit
           /\ \A i \in 1..Len(top) : \E j \in 1..Len(in) : in[j] = top[i]
           /\ \A i, j \in 1..Len(top) : i < j =>
                 /\ top[i].type # top[j].type
                 /\ top[i].count >= top[j].count
                 /\ top[i].count = top[j].count =>
                       PlaceOf(in, top[i].type) < PlaceOf(in, top[j].type)
           /\ \A j \in 1..Len(in) : in[j].type \notin kept =>
                 \A i \in 1..Len(top) :
                     /\ top[i].count >= in[j].count
                     /\ top[i].count = in[j].count => PlaceOf(in, top[i].type) < j

\* a mapping of more than ten types whose first entry is small and whose
\* large counts tie: ten entries come out, the ties in the mapping's order
C20_Witness ==
    /\ pc = "top_output"
    /\ Len(objectTypeCounts) > TopLimit
    /\ Len(topObjectTypes) = TopLimit
    /\ objectTypeCounts[1].count = 1 /\ objectTypeCounts[2].count = 2
    /\ objectTypeCounts[Len(objectTypeCounts)].count = 2
    /\ topObjectTypes[1] = objectTypeCounts[2]
    /\ \E i \in 1..TopLimit : topObjectTypes[i] = objectTypeCounts[1]

-----------------------------------------------------------------------------
(* The memory section *)

Analysed == pc = "analysis_output"

HighRssListed ==
    \E i \in 1..Len(memory.recommendations) : memory.recommendations[i] = "high_rss"

ListedThresholds ==
    << << "Headers", 100 >>, << "NodeHTTPResponse", 100 >>, << "Arguments", 1000 >>,
       << "Promise", 10000 >>, << "Array", 50000 >>, << "Function", 20000 >> >>

\* the heap statistics are available and count more than l objects of type t
Over(t, l) ==
    /\ jscAvailable
    /\ \E i \in 1..Len(objectTypeCounts) :
          objectTypeCounts[i].type = t /\ objectTypeCounts[i].count > l

\* C23: leakIndicators holds exactly one string for each exceeded threshold
\* among Headers > 100, NodeHTTPResponse > 100, Arguments > 1000,
\* Promise > 10000, Array > 50000, Function > 20000, in that order, and
\* nothing else; it is null iff none is exceeded, as in every response
\* without heap statistics.
C23_LeakIndicators ==
    Analysed =>
        LET list == memory.leakIndicators.list
            rank(t) == CHOOSE k \in 1..Len(ListedThresholds) : ListedThresholds[k][1] = t
        IN /\ \A i \in 1..Len(list) :
                 \E k \in 1..Len(ListedThresholds) : ListedThresholds[k][1] = list[i]
           /\ \A i, j \in 1..Len(list) : i < j => rank(list[i]) < rank(list[j])
           /\ \A k \in 1..Len(ListedThresholds) :
                 (\E i \in 1..Len(list) : list[i] = ListedThresholds[k][1])
                     <=> Over(ListedThresholds[k][1], ListedThresholds[k][2])
           /\ memory.leakIndicators.null <=>
                 ~\E k \in 1..Len(ListedThresholds) :
                     Over(ListedThresholds[k][1], ListedThresholds[k][2])
           /\ ~jscAvailable => memory.leakIndicators.null

\* Headers and Function are over their limits, Arguments is at its limit, and
\* the mapping lists Function before Headers: two indicators, Headers first
C23_Witness ==
    /\ Analysed /\ jscAvailable
    /\ CountOf(objectTypeCounts, "Arguments") = 1000
    /\ objectTypeCounts[1].type = "Function"
    /\ memory.leakIndicators = [null |-> FALSE, list |-> << "Headers", "Function" >>]

\* without heap statistics the indicators are null whatever the counts
C23_WitnessUnavailable ==
    /\ Analysed /\ ~jscAvailable
    /\ CountOf(objectTypeCounts, "Headers") = 101
    /\ memory.leakIndicators.null

-----------------------------------------------------------------------------
(* Shutdown *)

-----------------------------------------------------------------------------
(* The runner's selection of tests *)

\* the runner has printed its summary
Summarised == runner.pc = "exited" /\ runner.at = Known(runner.version) + 1

\* C25: a runner started with one of the seven documented options
\* --<env>-only, every script being in place, has run the test of that
\* environment and of no other when it ends; started without an option it has
\* run the test of every environment it knows, in their order.
C25_AsStated ==
    (Summarised /\ runner.notFound = {}) =>
        /\ \A i \in 1..Len(Options) :
             runner.arg = Options[i] => runner.ran = << Environments[i] >>
        /\ runner.arg = "" =>
             runner.ran = [i \in 1..Known(runner.version) |-> Environments[i]]

\* run-all-tests.sh --node-only has run the local and the docker test
C25_Witness ==
    /\ Summarised
    /\ runner.version = "two"
    /\ runner.arg = "--node-only"
    /\ runner.ran = << "local", "docker" >>

\* the seven-way version does what C25 says, and refuses any other word
C25_SevenWay ==
    runner.version = "seven" =>
        /\ C25_AsStated
        /\ (runner.pc = "exited" /\ runner.arg \notin {"", "--help"}
              /\ \A i \in 1..Len(Options) : runner.arg # Options[i])
           => (runner.status = 1 /\ runner.ran = << >>)

-----------------------------------------------------------------------------
(* The runner after a failed test *)

\* the environments whose test was selected and whose script exited 0
Passed == {Environments[i] : i \in {j \in 1..Len(Environments) :
                                      Environments[j] \in runner.RUN /\ runner.EXIT_CODE[j] = 0}}

\* C29: once the tests are selected, the runner ends only after its summary,
\* whatever the scripts' exit statuses and whether or not a script is missing:
\* by then every selected test was run or found missing. In the versions that
\* count, TOTAL_TESTS is the number of selected tests, SUCCESSFUL_TESTS the
\* number of them that exited 0, 0 <= SUCCESSFUL_TESTS <= TOTAL_TESTS, and
\* "All tests completed successfully" is printed exactly when
\* SUCCESSFUL_TESTS = TOTAL_TESTS > 0.
C29_RunnerContinues ==
    (runner.pc = "exited" /\ runner.RUN # {}) =>
        /\ Summarised
        /\ runner.status = 0
        /\ Range(runner.ran) \cup runner.notFound = runner.RUN
        /\ Range(runner.ran) \cap runner.notFound = {}
        /\ runner.version # "two" =>
             /\ runner.TOTAL_TESTS = Cardinality(runner.RUN)
             /\ runner.SUCCESSFUL_TESTS = Cardinality(Passed)
             /\ 0 <= runner.SUCCESSFUL_TESTS
             /\ runner.SUCCESSFUL_TESTS <= runner.TOTAL_TESTS
             /\ (runner.verdict = "All tests completed successfully")
                  <=> (runner.SUCCESSFUL_TESTS = runner.TOTAL_TESTS /\ runner.TOTAL_TESTS > 0)

\* all seven tests were selected, the first failed and the second was
\* missing: the other five ran and passed
C29_Witness ==
    /\ Summarised
    /\ runner.version = "seven"
    /\ runner.arg = ""
    /\ runner.EXIT_CODE[1] = 1 /\ "local" \in Range(runner.ran)
    /\ runner.notFound = {"docker"}
    /\ runner.ran = << "local", "node", "node-bun", "ubuntu-bun", "debian-bun", "alpine-bun" >>
    /\ runner.TOTAL_TESTS = 7
    /\ runner.SUCCESSFUL_TESTS = 5
    /\ runner.verdict = "Partial success"

-----------------------------------------------------------------------------
(* One server at a time *)

\* C30: during a run of the runner at most one server under test runs at any
\* time, and none runs while the runner is between two tests or while a
\* script has not yet started its own: the server of a test is stopped before
\* the next test is launched.
C30_OneServer ==
    /\ runner.servers <= 1
    /\ runner.test \in {"none", "launched"} => runner.servers = 0

\* the second test's server runs after the first test started one and passed
C30_Witness ==
    /\ runner.pc = "tests"
    /\ runner.at = 2
    /\ runner.EXIT_CODE[1] = 0
    /\ runner.ran = << "local", "docker" >>
    /\ runner.test = "serving"
    /\ runner.servers = 1

-----------------------------------------------------------------------------
(* What a snapshot is made of *)

\* the probes a script makes before it reaches step p
ProbesBefore(p) ==
    Cardinality({n \in 1..(PosIn(FlowNow, p) - 1) : FlowNow[n] \in ProbeSteps})

\* C26 as stated: each snapshot is read from one /memory response, so that
\* the server has answered one /memory request when the load begins, two
\* when the wait begins and three when the summary is printed.
C26_AsStated ==
    /\ pc = "load" => served.memory = 1
    /\ pc = "wait" => served.memory = 2
    /\ pc = "summary" => served.memory = 3

\* C26: each field group of a snapshot (HTTP-object counts, memory usage,
\* general object counts) is read from its own /memory request, so that the
\* server has answered as many /memory requests as the script has made probes
\* when the load begins; between the probes of one snapshot the server
\* handles no /health request; and a captured value is never modified.
C26_SeparateCaptures ==
    /\ [](pc = "load" => served.memory = ProbesBefore("load"))
    /\ [][pc \notin {"ready_loop", "ready_verify", "load"} => served'.health = served.health]_vars
    /\ [][\A n \in BlobNames : blob[n] # JsonUnset => blob'[n] = blob[n]]_vars

\* the baseline of test-reproduction-local.sh with jq: three variables
\* captured from three /memory requests
C26_Witness ==
    /\ script = "local" /\ Jq
    /\ pc = "load" /\ loopI = 0
    /\ served.memory = 3
    /\ blob["BASELINE"] # JsonUnset
    /\ blob["BASELINE_MEMORY"] # JsonUnset
    /\ blob["BASELINE_ALL"] # JsonUnset

-----------------------------------------------------------------------------
(* The requests between the two probes of the HTTP objects *)

\* the requests the server received after the probe that gave the baseline
\* HTTP-object counts and before the one that gave the post-load counts
BetweenProbes == marks.postload - marks.baseline - 1

\* the other probes the script makes between those two
ProbesBetween == ProbesBefore("post_stats") - ProbesBefore("baseline_stats") - 1

\* C27 as stated: between the two probes the server receives exactly 1000
\* requests.
C27_AsStated == marks.postload # 0 => BetweenProbes = LoadRequests

\* C27: between the two probes the server receives the 1000 requests of the
\* load loop, the number the leak rate divides by, and in addition every
\* other /memory probe the script makes between the two.
C27_LoadBetweenProbes ==
    marks.postload # 0 =>
        /\ marks.baseline # 0
        /\ loopI = LoadRequests
        /\ BetweenProbes = LoadRequests + ProbesBetween

\* test-reproduction-local.sh with jq: 1002 requests between the two probes
C27_Witness ==
    /\ script = "local" /\ Jq
    /\ marks.postload # 0
    /\ ProbesBetween = 2
    /\ BetweenProbes = LoadRequests + 2

-----------------------------------------------------------------------------
(* Readiness *)

\* the script has not yet seen the server ready
Unready == pc \in {"deps", "setup", "ready_loop", "ready_verify"}

\* C28: as long as no /health check of the final test has succeeded the
\* script has issued no /memory probe and no load request, and it starts
\* measuring only in the step in which that check returns with an answer;
\* RETRY_COUNT never exceeds MAX_RETRIES; a script that ends in the
\* readiness test exits 1 with the cleanup done and nothing measured; and the
\* readiness loop always ends.
C28_Readiness ==
    /\ [](Unready => (served.memory = 0 /\ loopI = 0 /\ marks = NoMarks
                        /\ \A n \in 1..Len(inflight) : inflight[n] = "/health"))
    /\ [][(Unready /\ ~Unready' /\ pc' # "exited")
            => (pc = "ready_verify" /\ Answered /\ served.health >= 1 /\ pc' = First)]_vars
    /\ [](RETRY_COUNT <= MAX_RETRIES)
    /\ [][(pc \in {"ready_loop", "ready_verify"} /\ pc' = "exited")
            => (exitStatus' = 1 /\ trapSet /\ serverState' = "stopped"
                  /\ served'.memory = 0 /\ loopI' = 0 /\ blob' = BlobInit)]_vars
    /\ (pc = "ready_loop") ~> (pc # "ready_loop")

\* the server never came up: ten retries, the final check fails, exit 1
C28_Witness ==
    /\ pc = "exited"
    /\ exitStatus = 1
    /\ trapSet
    /\ RETRY_COUNT = MAX_RETRIES
    /\ serverState = "stopped"
    /\ served = [health |-> 0, memory |-> 0]
====
